---- MODULE Spec2Model ----
(***************************************************************************)
(* A model of the psbt-v2 crate: the strict (version 2) PSBT document, the *)
(* lock-time resolver Psbt::determine_lock_time, the Combiner              *)
(* (combine / Psbt::combine_with / Psbt::combine / Input::combine /        *)
(* Output::combine), the role workflow (Creator, Constructor, Updater,     *)
(* Signer, Finalizer, Extractor) and the conversions between the strict    *)
(* document and the permissive one (from_psbt, to_psbt_v0, to_psbt_v2).    *)
(*                                                                         *)
(* A role is a record [role, psbt].  The value a call returned is held in  *)
(* res; the document moved into the call is held in this.                  *)
(*                                                                         *)
(* Encoding.  Option<T> is a sequence of length at most one: <<>> is None  *)
(* and <<x>> is Some(x).  A BTreeMap is a function whose domain is the set *)
(* of its keys.  A Result is a record [tag, ok, err] with tag one of       *)
(* "ok", "err" and "panic"; ok and err are Options.  Opaque data (txids,   *)
(* scripts, signatures, keys) are small integers or strings.               *)
(***************************************************************************)
EXTENDS Integers, Sequences, FiniteSets, TLC

VARIABLES this, that, res, rev

vars == <<this, that, res, rev>>

----------------------------------------------------------------------------
(* Bounds of the model. *)

\* The longest input sequence of a document.
MaxInputs == 2

\* The longest output sequence of a document.
MaxOutputs == 1

\* The longest BIP-32 derivation path of a key source.
MaxPathLen == 2

\* The longest input sequence the lock-time resolver is applied to.
MaxLockInputs == 3

----------------------------------------------------------------------------
(* Option<T> and Result<T, E>. *)

None == <<>>

Some(x) == <<x>>

IsSome(o) == Len(o) = 1

IsNone(o) == Len(o) = 0

Unwrap(o) == o[1]

Option(S) == {None} \cup {Some(x) : x \in S}

Ok(x) == [tag |-> "ok", ok |-> Some(x), err |-> None]

Err(e) == [tag |-> "err", ok |-> None, err |-> Some(e)]

\* The call did not return: an expect() on None, an integer underflow or a
\* slice index out of range.
Panic == [tag |-> "panic", ok |-> None, err |-> None]

\* No call has been made yet.
NoResult == [tag |-> "none", ok |-> None, err |-> None]

IsOk(r) == r.tag = "ok"

IsErr(r) == r.tag = "err"

----------------------------------------------------------------------------
(* The entity model. *)

EmptyMap == <<>>

\* absolute::LockTime: a block height or a Unix time.
HeightLock(h) == [unit |-> "height", n |-> h]

TimeLock(t) == [unit |-> "time", n |-> t]

LockTimeZERO == HeightLock(0)

\* The bits of tx_modifiable_flags.
INPUTS_MODIFIABLE == 1

OUTPUTS_MODIFIABLE == 2

SIGHASH_SINGLE == 4

\* Input { .. } with every optional field None and every map empty.
NewInput(txid, vout) ==
    [ previous_txid        |-> txid,
      spent_output_index   |-> vout,
      sequence             |-> None,
      min_time             |-> None,
      min_height           |-> None,
      non_witness_utxo     |-> None,
      witness_utxo         |-> None,
      partial_sigs         |-> EmptyMap,
      sighash_type         |-> None,
      redeem_script        |-> None,
      witness_script       |-> None,
      bip32_derivation     |-> EmptyMap,
      final_script_sig     |-> None,
      final_script_witness |-> None,
      ripemd160_preimages  |-> EmptyMap,
      sha256_preimages     |-> EmptyMap,
      hash160_preimages    |-> EmptyMap,
      hash256_preimages    |-> EmptyMap,
      tap_key_sig          |-> None,
      tap_script_sigs      |-> EmptyMap,
      tap_scripts          |-> EmptyMap,
      tap_key_origins      |-> EmptyMap,
      tap_internal_key     |-> None,
      tap_merkle_root      |-> None ]

\* Output { .. } with every optional field None and every map empty.
NewOutput(amount, script) ==
    [ amount           |-> amount,
      script_pubkey    |-> script,
      redeem_script    |-> None,
      witness_script   |-> None,
      bip32_derivation |-> EmptyMap,
      tap_internal_key |-> None,
      tap_tree         |-> None,
      tap_key_origins  |-> EmptyMap ]

\* Psbt { .. }: a well-formed document over the given sequences.
NewPsbt(version, fallback, xpub, inputs, outputs) ==
    [ tx_version          |-> version,
      fallback_lock_time  |-> fallback,
      input_count         |-> Len(inputs),
      output_count        |-> Len(outputs),
      tx_modifiable_flags |-> 0,
      xpub                |-> xpub,
      inputs              |-> inputs,
      outputs             |-> outputs ]

----------------------------------------------------------------------------
(* Lock-time resolution. *)

has_lock_time(input) == IsSome(input.min_time) \/ IsSome(input.min_height)

\* A variant of requires_time_based_lock_time that does not look at min_height.
requires_time_ignoring_height(input) == IsSome(input.min_time)

requires_time_based_lock_time(input) ==
    IsSome(input.min_time) /\ IsNone(input.min_height)

requires_height_based_lock_time(input) ==
    IsSome(input.min_height) /\ IsNone(input.min_time)

\* A variant of is_satisfied_with_height_based_lock_time that leaves out the
\* inputs that set both fields.
is_satisfied_without_both(input) ==
    \/ requires_height_based_lock_time(input)
    \/ IsNone(input.min_time) /\ IsNone(input.min_height)

\* A variant of is_satisfied_with_height_based_lock_time that also counts the
\* inputs that set min_time only.
is_satisfied_with_any_lock_time(input) ==
    \/ requires_height_based_lock_time(input)
    \/ IsSome(input.min_time)
    \/ IsNone(input.min_time) /\ IsNone(input.min_height)

is_satisfied_with_height_based_lock_time(input) ==
    \/ requires_height_based_lock_time(input)
    \/ IsSome(input.min_time) /\ IsSome(input.min_height)
    \/ IsNone(input.min_time) /\ IsNone(input.min_height)

\* Ord for Option<T>: None is less than every Some, Some(x) <= Some(y) iff x <= y.
OptionLe(a, b) ==
    \/ IsNone(a)
    \/ IsSome(a) /\ IsSome(b) /\ Unwrap(a) <= Unwrap(b)

\* A variant of Iterator::max that returns the least element.
IterMin(opts) ==
    IF Len(opts) = 0 THEN None
    ELSE Some(CHOOSE m \in {opts[i] : i \in 1..Len(opts)} :
                  \A i \in 1..Len(opts) : OptionLe(m, opts[i]))

\* Iterator::max over a sequence of Option<T>: None on the empty sequence,
\* otherwise Some(the greatest element under OptionLe).
IterMax(opts) ==
    IF Len(opts) = 0 THEN None
    ELSE Some(CHOOSE m \in {opts[i] : i \in 1..Len(opts)} :
                  \A i \in 1..Len(opts) : OptionLe(opts[i], m))

\* Option::expect: the value, or a panic.
Expect(o) == IF IsSome(o) THEN Ok(Unwrap(o)) ELSE Panic

\* .max().expect(..).expect(..) over one lock-time field of the inputs.
MaxOf(opts) ==
    LET outer == Expect(IterMax(opts))
    IN  IF IsOk(outer) THEN Expect(Unwrap(outer.ok)) ELSE Panic

DetermineLockTimeError == [kind |-> "DetermineLockTimeError"]

determine_lock_time(psbt) ==
    LET inputs == psbt.inputs
        idx    == 1..Len(inputs)
        require_time_based_lock_time ==
            \E i \in idx : requires_time_based_lock_time(inputs[i])
        require_height_based_lock_time ==
            \E i \in idx : requires_height_based_lock_time(inputs[i])
        have_lock_time == \E i \in idx : has_lock_time(inputs[i])
        all_inputs_satisfied_with_height_based_lock_time ==
            \A i \in idx : is_satisfied_with_height_based_lock_time(inputs[i])
        height == MaxOf([i \in idx |-> inputs[i].min_height])
        time   == MaxOf([i \in idx |-> inputs[i].min_time])
    IN  IF require_time_based_lock_time /\ require_height_based_lock_time
        THEN Err(DetermineLockTimeError)
        ELSE IF have_lock_time
        THEN IF all_inputs_satisfied_with_height_based_lock_time
             THEN IF IsOk(height) THEN Ok(HeightLock(Unwrap(height.ok))) ELSE Panic
             ELSE IF IsOk(time) THEN Ok(TimeLock(Unwrap(time.ok))) ELSE Panic
        ELSE Ok(psbt.fallback_lock_time)

----------------------------------------------------------------------------
(* The Combiner. *)

\* A variant of combine_option! that takes the value of other when it has one.
combine_option_overwriting(slf, other) ==
    IF IsSome(other) THEN other ELSE slf

\* combine_option!: self.thing becomes other.thing iff self.thing is None.
combine_option(slf, other) ==
    IF IsNone(slf) /\ IsSome(other) THEN other ELSE slf

\* A variant of combine_map! that keeps the entry of self under a key both
\* maps hold.
combine_map_keeping(slf, other) ==
    [k \in (DOMAIN slf) \cup (DOMAIN other) |->
        IF k \in DOMAIN slf THEN slf[k] ELSE other[k]]

\* combine_map!: BTreeMap::extend, an entry of other replaces the entry of
\* self under the same key.
combine_map(slf, other) ==
    [k \in (DOMAIN slf) \cup (DOMAIN other) |->
        IF k \in DOMAIN other THEN other[k] ELSE slf[k]]

\* A variant of the PreviousTxidMismatch error with its two values exchanged.
PreviousTxidMismatchExchanged(a, b) ==
    [kind |-> "PreviousTxidMismatch", this |-> b, that |-> a]

PreviousTxidMismatch(a, b) ==
    [kind |-> "PreviousTxidMismatch", this |-> a, that |-> b]

SpentOutputIndexMismatch(a, b) ==
    [kind |-> "SpentOutputIndexMismatch", this |-> a, that |-> b]

AmountMismatch(a, b) == [kind |-> "AmountMismatch", this |-> a, that |-> b]

ScriptPubkeyMismatch(a, b) ==
    [kind |-> "ScriptPubkeyMismatch", this |-> a, that |-> b]

TxVersionMismatch(a, b) == [kind |-> "TxVersionMismatch", this |-> a, that |-> b]

InconsistentKeySourcesError(xpub) ==
    [kind |-> "InconsistentKeySources", xpub |-> xpub]

\* Input::combine: Ok(self after the merge), or the error with self untouched.
InputCombine(slf, other) ==
    IF slf.previous_txid # other.previous_txid
    THEN Err(PreviousTxidMismatch(slf.previous_txid, other.previous_txid))
    ELSE IF slf.spent_output_index # other.spent_output_index
    THEN Err(SpentOutputIndexMismatch(slf.spent_output_index,
                                      other.spent_output_index))
    ELSE Ok(
      [ previous_txid        |-> slf.previous_txid,
        spent_output_index   |-> slf.spent_output_index,
        sequence             |-> combine_option(slf.sequence, other.sequence),
        min_time             |-> combine_option(slf.min_time, other.min_time),
        min_height           |-> combine_option(slf.min_height, other.min_height),
        \* Set by combine_option, then cleared when a witness UTXO is taken
        \* from other.
        non_witness_utxo     |->
            IF IsNone(slf.witness_utxo) /\ IsSome(other.witness_utxo)
            THEN None
            ELSE combine_option(slf.non_witness_utxo, other.non_witness_utxo),
        witness_utxo         |->
            IF IsNone(slf.witness_utxo) /\ IsSome(other.witness_utxo)
            THEN other.witness_utxo
            ELSE slf.witness_utxo,
        partial_sigs         |-> combine_map(slf.partial_sigs, other.partial_sigs),
        sighash_type         |-> slf.sighash_type,
        redeem_script        |-> combine_option(slf.redeem_script, other.redeem_script),
        witness_script       |-> combine_option(slf.witness_script, other.witness_script),
        bip32_derivation     |-> combine_map(slf.bip32_derivation, other.bip32_derivation),
        final_script_sig     |->
            combine_option(slf.final_script_sig, other.final_script_sig),
        final_script_witness |->
            combine_option(slf.final_script_witness, other.final_script_witness),
        ripemd160_preimages  |->
            combine_map(slf.ripemd160_preimages, other.ripemd160_preimages),
        sha256_preimages     |-> combine_map(slf.sha256_preimages, other.sha256_preimages),
        hash160_preimages    |-> combine_map(slf.hash160_preimages, other.hash160_preimages),
        hash256_preimages    |-> combine_map(slf.hash256_preimages, other.hash256_preimages),
        tap_key_sig          |-> combine_option(slf.tap_key_sig, other.tap_key_sig),
        tap_script_sigs      |-> combine_map(slf.tap_script_sigs, other.tap_script_sigs),
        tap_scripts          |-> combine_map(slf.tap_scripts, other.tap_scripts),
        tap_key_origins      |-> combine_map(slf.tap_key_origins, other.tap_key_origins),
        tap_internal_key     |->
            combine_option(slf.tap_internal_key, other.tap_internal_key),
        tap_merkle_root      |->
            combine_option(slf.tap_merkle_root, other.tap_merkle_root) ])

\* Output::combine: Ok(self after the merge), or the error with self untouched.
OutputCombine(slf, other) ==
    IF slf.amount # other.amount
    THEN Err(AmountMismatch(slf.amount, other.amount))
    ELSE IF slf.script_pubkey # other.script_pubkey
    THEN Err(ScriptPubkeyMismatch(slf.script_pubkey, other.script_pubkey))
    ELSE Ok(
      [ amount           |-> slf.amount,
        script_pubkey    |-> slf.script_pubkey,
        redeem_script    |-> combine_option(slf.redeem_script, other.redeem_script),
        witness_script   |-> combine_option(slf.witness_script, other.witness_script),
        bip32_derivation |-> combine_map(slf.bip32_derivation, other.bip32_derivation),
        tap_internal_key |->
            combine_option(slf.tap_internal_key, other.tap_internal_key),
        tap_tree         |-> combine_option(slf.tap_tree, other.tap_tree),
        tap_key_origins  |-> combine_map(slf.tap_key_origins, other.tap_key_origins) ])

\* The extended public keys, in the order of Ord for Xpub (the iteration
\* order of a BTreeMap<Xpub, KeySource>).
XpubOrder == <<"X1", "X2">>

\* KeySource: (Fingerprint, DerivationPath).
KeySource(fingerprint, derivation) ==
    [fingerprint |-> fingerprint, derivation |-> derivation]

\* derivation[derivation.len() - n ..], for n <= derivation.len().
PathTail(derivation, n) ==
    SubSeq(derivation, Len(derivation) - n + 1, Len(derivation))

\* A variant of MergeKeySource whose last arm does not insert the longer
\* entry of other.
MergeKeySourceNoInsert(xpub, entry1, entry2) ==
    IF \/ entry1 = entry2
       \/ /\ Len(entry1.derivation) < Len(entry2.derivation)
          /\ entry1.derivation = PathTail(entry2.derivation, Len(entry1.derivation))
    THEN Ok(entry2)
    ELSE IF Len(entry1.derivation) < Len(entry2.derivation)
    THEN Panic
    ELSE IF entry2.derivation = PathTail(entry1.derivation, Len(entry2.derivation))
    THEN Ok(entry2)
    ELSE Err([kind |-> "InconsistentKeySources", xpub |-> xpub])

\* The Occupied arm of the xpub merge for one key: entry1 comes from other,
\* entry2 is the entry of self.  Ok(the entry self holds afterwards), the
\* error, or a panic: derivation1.len() - derivation2.len() is computed in
\* usize, and when it underflows either the subtraction panics (overflow
\* checks on) or its wrapped value is a slice start beyond the end, which
\* panics too.
MergeKeySource(xpub, entry1, entry2) ==
    LET fingerprint1 == entry1.fingerprint
        derivation1  == entry1.derivation
        fingerprint2 == entry2.fingerprint
        derivation2  == entry2.derivation
    IN  IF \/ derivation1 = derivation2 /\ fingerprint1 = fingerprint2
           \/ /\ Len(derivation1) < Len(derivation2)
              /\ derivation1 = PathTail(derivation2, Len(derivation1))
        THEN Ok(entry2)
        ELSE IF Len(derivation1) < Len(derivation2)
        THEN Panic
        ELSE IF derivation2 = PathTail(derivation1, Len(derivation2))
        THEN Ok(entry1)
        ELSE Err(InconsistentKeySourcesError(xpub))

\* The loop `for (xpub, ..) in other.xpubs` from the i-th key on: the xpub
\* map of self when the loop stops, and how it stopped.
RECURSIVE MergeXpubs(_, _, _)
MergeXpubs(xpubs, other, i) ==
    IF i > Len(XpubOrder)
    THEN [xpub |-> xpubs, out |-> Ok("unit")]
    ELSE LET xpub == XpubOrder[i]
         IN  IF xpub \notin DOMAIN other
             THEN MergeXpubs(xpubs, other, i + 1)
             ELSE IF xpub \notin DOMAIN xpubs
             THEN MergeXpubs(
                      [k \in (DOMAIN xpubs) \cup {xpub} |->
                          IF k = xpub THEN other[xpub] ELSE xpubs[k]],
                      other, i + 1)
             ELSE LET merged == MergeKeySource(xpub, other[xpub], xpubs[xpub])
                  IN  IF IsOk(merged)
                      THEN MergeXpubs([xpubs EXCEPT ![xpub] = Unwrap(merged.ok)],
                                      other, i + 1)
                      ELSE [xpub |-> xpubs, out |-> merged]

\* Psbt::combine(&mut self, other): self when the call stops and the value it
\* returns (Ok(()), the error, or a panic).
PsbtCombine(slf, other) ==
    IF slf.tx_version # other.tx_version
    THEN [self |-> slf,
          out  |-> Err(TxVersionMismatch(slf.tx_version, other.tx_version))]
    ELSE LET xpubs == MergeXpubs(slf.xpub, other.xpub, 1)
         IN  [self |-> [slf EXCEPT
                          !.input_count  = slf.input_count + other.input_count,
                          !.output_count = slf.output_count + other.output_count,
                          !.xpub         = xpubs.xpub],
              out  |-> xpubs.out]

Min(a, b) == IF a <= b THEN a ELSE b

\* A variant of the first loop that keeps the paired inputs only.
CombineInputsTruncating(slfSeq, otherSeq) ==
    LET n      == Min(Len(slfSeq), Len(otherSeq))
        merged == [i \in 1..n |-> InputCombine(slfSeq[i], otherSeq[i])]
        failed == {i \in 1..n : ~IsOk(merged[i])}
    IN  IF failed = {}
        THEN Ok([i \in 1..n |-> Unwrap(merged[i].ok)])
        ELSE merged[CHOOSE i \in failed : \A j \in failed : i <= j]

\* The first loop of combine_with, over the zipped inputs: Ok(the inputs of
\* self afterwards), or what the first failing Input::combine returned.
CombineInputs(slfSeq, otherSeq) ==
    LET n      == Min(Len(slfSeq), Len(otherSeq))
        merged == [i \in 1..n |-> InputCombine(slfSeq[i], otherSeq[i])]
        failed == {i \in 1..n : ~IsOk(merged[i])}
    IN  IF failed = {}
        THEN Ok([i \in 1..Len(slfSeq) |->
                    IF i <= n THEN Unwrap(merged[i].ok) ELSE slfSeq[i]])
        ELSE merged[CHOOSE i \in failed : \A j \in failed : i <= j]

\* The second loop of combine_with, over the zipped outputs.
CombineOutputs(slfSeq, otherSeq) ==
    LET n      == Min(Len(slfSeq), Len(otherSeq))
        merged == [i \in 1..n |-> OutputCombine(slfSeq[i], otherSeq[i])]
        failed == {i \in 1..n : ~IsOk(merged[i])}
    IN  IF failed = {}
        THEN Ok([i \in 1..Len(slfSeq) |->
                    IF i <= n THEN Unwrap(merged[i].ok) ELSE slfSeq[i]])
        ELSE merged[CHOOSE i \in failed : \A j \in failed : i <= j]

\* Psbt::combine_with(self, other), which combine(this, that) calls.
combine_with(slf, other) ==
    LET global  == PsbtCombine(slf, other)
        inputs  == CombineInputs(slf.inputs, other.inputs)
        outputs == CombineOutputs(slf.outputs, other.outputs)
    IN  IF ~IsOk(global.out) THEN global.out
        ELSE IF ~IsOk(inputs) THEN inputs
        ELSE IF ~IsOk(outputs) THEN outputs
        ELSE Ok([global.self EXCEPT !.inputs  = Unwrap(inputs.ok),
                                    !.outputs = Unwrap(outputs.ok)])

combine(a, b) == combine_with(a, b)

----------------------------------------------------------------------------
(* Values the documents are drawn from. *)

TxVersions == {1, 2}

Txids == {1, 2}

Vouts == {0, 1}

Heights == {1, 2}

Times == {1, 2}

Fallbacks == {LockTimeZERO, HeightLock(3), TimeLock(3)}

\* All sequences over S of length at most n.
SeqUpTo(S, n) == UNION {[1..k -> S] : k \in 0..n}

\* Inputs that differ in their lock-time fields only.
LockTimeInputs ==
    {[NewInput(1, 0) EXCEPT !.min_time = mt, !.min_height = mh] :
        mt \in Option(Times), mh \in Option(Heights)}

\* Values of an opaque optional field (a script, a signature, a key, a hash).
Vals == {1, 2}

\* bitcoin::Witness: a vector of stack elements, possibly empty.
Witnesses == {<<>>, <<1>>}

\* bitcoin::TxOut, opaque.
TxOuts == {1, 2}

\* bitcoin::Transaction, as far as the crate reads it: its output vector.
Txs == {[output |-> <<1>>], [output |-> <<1, 2>>]}

MapKeys == {"k1", "k2"}

\* The maps over MapKeys with values in Vals.
Maps == UNION {[D -> Vals] : D \in SUBSET MapKeys}

\* The optional fields of Input other than the funding evidence.
InputOptionFields ==
    {"sequence", "min_time", "min_height", "sighash_type", "redeem_script",
     "witness_script", "final_script_sig", "final_script_witness",
     "tap_key_sig", "tap_internal_key", "tap_merkle_root"}

InputMapFields ==
    {"partial_sigs", "bip32_derivation", "ripemd160_preimages",
     "sha256_preimages", "hash160_preimages", "hash256_preimages",
     "tap_script_sigs", "tap_scripts", "tap_key_origins"}

OutputOptionFields ==
    {"redeem_script", "witness_script", "tap_internal_key", "tap_tree"}

OutputMapFields == {"bip32_derivation", "tap_key_origins"}

FieldVals(f) == IF f = "final_script_witness" THEN Witnesses ELSE Vals

\* Pairs of inputs of the same identity that differ from NewInput in one
\* optional field, in one map, or in the funding evidence.
InputPairs ==
    UNION {
      UNION {{<<[NewInput(1, 0) EXCEPT ![f] = x], [NewInput(1, 0) EXCEPT ![f] = y]>> :
                 x \in Option(FieldVals(f)), y \in Option(FieldVals(f))} :
             f \in InputOptionFields},
      UNION {{<<[NewInput(1, 0) EXCEPT ![f] = x], [NewInput(1, 0) EXCEPT ![f] = y]>> :
                 x \in Maps, y \in Maps} :
             f \in InputMapFields},
      {<<[NewInput(1, 0) EXCEPT !.non_witness_utxo = n1, !.witness_utxo = w1],
         [NewInput(1, 0) EXCEPT !.non_witness_utxo = n2, !.witness_utxo = w2]>> :
          n1 \in Option(Txs), w1 \in Option(TxOuts),
          n2 \in Option(Txs), w2 \in Option(TxOuts)} }

\* Pairs of outputs of the same identity that differ from NewOutput in one
\* optional field or in one map.
OutputPairs ==
    UNION {
      UNION {{<<[NewOutput(1, 1) EXCEPT ![f] = x], [NewOutput(1, 1) EXCEPT ![f] = y]>> :
                 x \in Option(Vals), y \in Option(Vals)} :
             f \in OutputOptionFields},
      UNION {{<<[NewOutput(1, 1) EXCEPT ![f] = x], [NewOutput(1, 1) EXCEPT ![f] = y]>> :
                 x \in Maps, y \in Maps} :
             f \in OutputMapFields} }

\* The i-th input (output) of a document built from one template: the
\* template at the i-th identity.
InputsOf(template, n) == [i \in 1..n |-> [template EXCEPT !.previous_txid = i]]

OutputsOf(template, n) == [i \in 1..n |-> [template EXCEPT !.amount = i]]

Fingerprints == {"F1", "F2"}

ChildNumbers == {1, 2}

KeySources ==
    {KeySource(f, d) : f \in Fingerprints, d \in SeqUpTo(ChildNumbers, MaxPathLen)}

ShortKeySources ==
    {KeySource(f, d) : f \in Fingerprints, d \in SeqUpTo(ChildNumbers, 1)}

\* The xpub maps: any key source for the first key, one with a path of at
\* most one step for the second.
XpubMaps ==
    {<<>>}
    \cup {[k \in {"X1"} |-> s] : s \in KeySources}
    \cup {[k \in {"X2"} |-> s] : s \in ShortKeySources}
    \cup {[k \in {"X1", "X2"} |-> IF k = "X1" THEN s1 ELSE s2] :
             s1 \in KeySources, s2 \in ShortKeySources}

\* A few xpub maps: none, and one key under three unrelated sources.
FewXpubMaps ==
    {<<>>,
     [k \in {"X1"} |-> KeySource("F1", <<1>>)],
     [k \in {"X1"} |-> KeySource("F1", <<2>>)],
     [k \in {"X1"} |-> KeySource("F1", <<1, 2>>)]}

----------------------------------------------------------------------------
(* The Combiner applied to bounded pairs of documents. *)

NotCalled == [op |-> "none", out |-> NoResult]

\* Two documents of the same identity whose paired inputs, or paired
\* outputs, differ in one field.
InitFields ==
    /\ \E n1 \in 0..MaxInputs, n2 \in 0..MaxInputs,
          m1 \in 0..MaxOutputs, m2 \in 0..MaxOutputs :
          \/ \E pair \in InputPairs :
                /\ this = NewPsbt(2, LockTimeZERO, EmptyMap,
                                  InputsOf(pair[1], n1), OutputsOf(NewOutput(1, 1), m1))
                /\ that = NewPsbt(2, LockTimeZERO, EmptyMap,
                                  InputsOf(pair[2], n2), OutputsOf(NewOutput(1, 1), m2))
          \/ \E pair \in OutputPairs :
                /\ this = NewPsbt(2, LockTimeZERO, EmptyMap,
                                  InputsOf(NewInput(1, 0), n1), OutputsOf(pair[1], m1))
                /\ that = NewPsbt(2, LockTimeZERO, EmptyMap,
                                  InputsOf(NewInput(1, 0), n2), OutputsOf(pair[2], m2))
    /\ res = NotCalled
    /\ rev = NotCalled

\* Two documents whose versions, input identities and xpub maps may differ.
InitIdentity ==
    /\ \E v1 \in TxVersions, v2 \in TxVersions,
          x1 \in FewXpubMaps, x2 \in FewXpubMaps,
          n1 \in 0..MaxInputs,
          ids \in SeqUpTo(Txids \X Vouts, MaxInputs) :
          /\ this = NewPsbt(v1, LockTimeZERO, x1, InputsOf(NewInput(1, 0), n1), <<>>)
          /\ that = NewPsbt(v2, LockTimeZERO, x2,
                            [i \in 1..Len(ids) |-> NewInput(ids[i][1], ids[i][2])], <<>>)
    /\ res = NotCalled
    /\ rev = NotCalled

\* Two documents whose output identities may differ.
InitOutputIdentity ==
    /\ \E n1 \in 0..MaxOutputs,
          ids \in SeqUpTo(Vals \X Vals, MaxOutputs) :
          /\ this = NewPsbt(2, LockTimeZERO, EmptyMap, InputsOf(NewInput(1, 0), 1),
                            OutputsOf(NewOutput(1, 1), n1))
          /\ that = NewPsbt(2, LockTimeZERO, EmptyMap, InputsOf(NewInput(1, 0), 1),
                            [i \in 1..Len(ids) |-> NewOutput(ids[i][1], ids[i][2])])
    /\ res = NotCalled
    /\ rev = NotCalled

\* Two documents of the same identity whose xpub maps and fallback lock
\* times may differ.
InitXpub ==
    /\ \E x1 \in XpubMaps, x2 \in XpubMaps, fallback \in {LockTimeZERO, HeightLock(3)} :
          /\ this = NewPsbt(2, LockTimeZERO, x1, InputsOf(NewInput(1, 0), 1), <<>>)
          /\ that = NewPsbt(2, fallback, x2, InputsOf(NewInput(1, 0), 1), <<>>)
    /\ res = NotCalled
    /\ rev = NotCalled

\* Inputs that set min_time, min_height, both or neither.
CombineLockInputs ==
    {[NewInput(1, 0) EXCEPT !.min_time = mt, !.min_height = mh] :
        mt \in Option({1}), mh \in Option({1})}

\* Two documents of the same identity whose numbers of inputs and outputs
\* and lock times of each input may differ, and whose modifiable flags and
\* fallback lock times differ.
InitLockTimes ==
    /\ \E ins1 \in SeqUpTo(CombineLockInputs, MaxInputs),
          ins2 \in SeqUpTo(CombineLockInputs, MaxInputs),
          m1 \in 0..MaxOutputs,
          fallback \in {HeightLock(3)} :
          /\ this = [NewPsbt(2, LockTimeZERO, EmptyMap,
                             [i \in 1..Len(ins1) |-> [ins1[i] EXCEPT !.previous_txid = i]],
                             OutputsOf(NewOutput(1, 1), m1))
                     EXCEPT !.tx_modifiable_flags = INPUTS_MODIFIABLE]
          /\ that = [NewPsbt(2, fallback, EmptyMap,
                             [i \in 1..Len(ins2) |-> [ins2[i] EXCEPT !.previous_txid = i]],
                             OutputsOf(NewOutput(1, 1), MaxOutputs - m1))
                     EXCEPT !.tx_modifiable_flags = OUTPUTS_MODIFIABLE]
    /\ res = NotCalled
    /\ rev = NotCalled

InitCombine ==
    InitFields \/ InitIdentity \/ InitOutputIdentity \/ InitXpub \/ InitLockTimes

\* combine(this, that).
Combine ==
    /\ res.op = "none"
    /\ res' = [op |-> "combine", out |-> combine(this, that)]
    /\ UNCHANGED <<this, that, rev>>

\* combine(that, this), the same two documents in the other order.
CombineReversed ==
    /\ res.op = "combine"
    /\ rev.op = "none"
    /\ rev' = [op |-> "combine", out |-> combine(that, this)]
    /\ UNCHANGED <<this, that, res>>

\* this.combine(that) of Psbt::combine(&mut self, other): what it returns,
\* beside the receiver as the call leaves it.
PsbtCombineCall ==
    /\ res.op = "none"
    /\ LET global == PsbtCombine(this, that)
       IN  res' = [op |-> "Psbt::combine", out |-> global.out, self |-> global.self]
    /\ UNCHANGED <<this, that, rev>>

NextCombine == Combine \/ CombineReversed \/ PsbtCombineCall

SpecCombine == InitCombine /\ [][NextCombine]_vars

----------------------------------------------------------------------------
(* The lock-time resolver applied to every bounded input sequence. *)

InitLockTime ==
    /\ \E inputs \in SeqUpTo(LockTimeInputs, MaxLockInputs), fallback \in Fallbacks :
           this = NewPsbt(2, fallback, EmptyMap,
                          [i \in 1..Len(inputs) |-> [inputs[i] EXCEPT !.previous_txid = i]],
                          <<>>)
    /\ that = NewPsbt(2, LockTimeZERO, EmptyMap, <<>>, <<>>)
    /\ res = NotCalled
    /\ rev = NotCalled

DetermineLockTime ==
    /\ res.op = "none"
    /\ res' = [op |-> "determine_lock_time", out |-> determine_lock_time(this)]
    /\ UNCHANGED <<this, that, rev>>

NextLockTime == DetermineLockTime

SpecLockTime == InitLockTime /\ [][NextLockTime]_vars

----------------------------------------------------------------------------
(* Claims about the lock-time resolver, checked under SpecLockTime. *)

Resolved == res.op = "determine_lock_time"

TimeOnly(input) == input.min_time # None /\ input.min_height = None

HeightOnly(input) == input.min_height # None /\ input.min_time = None

Conflict(psbt) ==
    /\ \E i \in 1..Len(psbt.inputs) : TimeOnly(psbt.inputs[i])
    /\ \E j \in 1..Len(psbt.inputs) : HeightOnly(psbt.inputs[j])

\* The greatest element of a non-empty set of integers.
Greatest(S) == CHOOSE m \in S : \A x \in S : x <= m

HeightsSet(psbt) ==
    {psbt.inputs[i].min_height[1] :
        i \in {j \in 1..Len(psbt.inputs) : psbt.inputs[j].min_height # None}}

TimesSet(psbt) ==
    {psbt.inputs[i].min_time[1] :
        i \in {j \in 1..Len(psbt.inputs) : psbt.inputs[j].min_time # None}}

\* C1: determine_lock_time returns DetermineLockTimeError if and only if some
\* input sets min_time without min_height and some input sets min_height
\* without min_time, whatever the other inputs, the order of the inputs and
\* the fallback lock time are.
C1_ErrorIffConflict ==
    Resolved => (res.out = Err(DetermineLockTimeError) <=> Conflict(this))

\* C1, witness: the error is returned for a document of three inputs whose
\* time-only input comes after its height-only input, beside an input that
\* sets both fields, under a non-zero fallback.
C1_Witness ==
    /\ Resolved
    /\ res.out = Err(DetermineLockTimeError)
    /\ Len(this.inputs) = 3
    /\ HeightOnly(this.inputs[1])
    /\ this.inputs[2].min_time # None /\ this.inputs[2].min_height # None
    /\ TimeOnly(this.inputs[3])
    /\ this.fallback_lock_time # LockTimeZERO

\* C2: without a conflict determine_lock_time returns the fallback lock time
\* if no input sets a lock-time field; otherwise the greatest min_height if
\* every input sets only min_height, both fields or neither; otherwise the
\* greatest min_time.  It never panics.
C2_ResolvedValue ==
    Resolved =>
        /\ res.out.tag # "panic"
        /\ ~Conflict(this) =>
             IF \A i \in 1..Len(this.inputs) :
                    this.inputs[i].min_time = None /\ this.inputs[i].min_height = None
             THEN res.out = Ok(this.fallback_lock_time)
             ELSE IF \A i \in 1..Len(this.inputs) : ~TimeOnly(this.inputs[i])
             THEN res.out = Ok(HeightLock(Greatest(HeightsSet(this))))
             ELSE res.out = Ok(TimeLock(Greatest(TimesSet(this))))

\* C2, witness: a height is returned for inputs that set both fields, only
\* min_height and neither, the greatest height not being the last one.
C2_Witness ==
    /\ Resolved
    /\ Len(this.inputs) = 3
    /\ this.inputs[1].min_time = Some(2) /\ this.inputs[1].min_height = Some(2)
    /\ this.inputs[2] = NewInput(2, 0)
    /\ HeightOnly(this.inputs[3]) /\ this.inputs[3].min_height = Some(1)
    /\ res.out = Ok(HeightLock(2))

----------------------------------------------------------------------------
(* Claims about the Combiner, checked under SpecCombine. *)

Combined == res.op = "combine"

BothCombined == res.op = "combine" /\ rev.op = "combine"

Paired(s1, s2) == 1..Min(Len(s1), Len(s2))

SameInputIdentity(a, b) ==
    \A i \in Paired(a.inputs, b.inputs) :
        /\ a.inputs[i].previous_txid = b.inputs[i].previous_txid
        /\ a.inputs[i].spent_output_index = b.inputs[i].spent_output_index

SameOutputIdentity(a, b) ==
    \A i \in Paired(a.outputs, b.outputs) :
        /\ a.outputs[i].amount = b.outputs[i].amount
        /\ a.outputs[i].script_pubkey = b.outputs[i].script_pubkey

Compatible(a, b) ==
    /\ a.tx_version = b.tx_version
    /\ SameInputIdentity(a, b)
    /\ SameOutputIdentity(a, b)

\* The document a successful combine(this, that) returned.
Result == res.out.ok[1]

\* C3: combine is commutative: for compatible documents combine(this, that)
\* and combine(that, this) both succeed and return equal documents.
C3_Commutative ==
    (BothCombined /\ Compatible(this, that)) =>
        /\ IsOk(res.out)
        /\ IsOk(rev.out)
        /\ res.out = rev.out

\* C4: combine is idempotent: combine(a, a) succeeds and returns a, counts
\* included.
C4_Idempotent ==
    (Combined /\ this = that) => res.out = Ok(this)

\* C5: after a successful combine the counts equal the lengths of the
\* merged sequences.
C5_CountsMatchLengths ==
    (Combined /\ IsOk(res.out)) =>
        /\ Result.input_count = Len(Result.inputs)
        /\ Result.output_count = Len(Result.outputs)

\* The paired inputs that differ in previous_txid or spent_output_index.
MismatchedInputs(a, b) ==
    {i \in Paired(a.inputs, b.inputs) :
        \/ a.inputs[i].previous_txid # b.inputs[i].previous_txid
        \/ a.inputs[i].spent_output_index # b.inputs[i].spent_output_index}

First(S) == CHOOSE i \in S : \A j \in S : i <= j

\* The error Input::combine owes the first mismatched pair of inputs.
FirstInputMismatch(a, b) ==
    LET i == First(MismatchedInputs(a, b))
    IN  IF a.inputs[i].previous_txid # b.inputs[i].previous_txid
        THEN Err([kind |-> "PreviousTxidMismatch",
                  this |-> a.inputs[i].previous_txid,
                  that |-> b.inputs[i].previous_txid])
        ELSE Err([kind |-> "SpentOutputIndexMismatch",
                  this |-> a.inputs[i].spent_output_index,
                  that |-> b.inputs[i].spent_output_index])

\* The keys both xpub maps hold, under different key sources.
DisputedXpubs(a, b) ==
    {k \in (DOMAIN a.xpub) \cap (DOMAIN b.xpub) : a.xpub[k] # b.xpub[k]}

\* C6 as stated: TxVersionMismatch if the versions differ; with equal
\* versions, PreviousTxidMismatch or SpentOutputIndexMismatch for the first
\* paired input whose identity differs; both carry the value of this as
\* `this` and the value of that as `that`.
C6_MismatchErrors ==
    Combined =>
        /\ this.tx_version # that.tx_version =>
             res.out = Err([kind |-> "TxVersionMismatch",
                            this |-> this.tx_version, that |-> that.tx_version])
        /\ (this.tx_version = that.tx_version /\ MismatchedInputs(this, that) # {}) =>
             res.out = FirstInputMismatch(this, that)

\* C6 as amended: the same, except that with equal versions the xpub maps
\* are merged before any input is compared, so a failure of that merge (the
\* InconsistentKeySources error for a key both documents hold under
\* different key sources, or its panic) is what combine ends with; combine
\* never succeeds on mismatched documents.
C6_MismatchErrorsAfterXpubs ==
    Combined =>
        /\ this.tx_version # that.tx_version =>
             res.out = Err([kind |-> "TxVersionMismatch",
                            this |-> this.tx_version, that |-> that.tx_version])
        /\ (this.tx_version = that.tx_version /\ MismatchedInputs(this, that) # {}) =>
             \/ res.out = FirstInputMismatch(this, that)
             \/ res.out \in {Err([kind |-> "InconsistentKeySources", xpub |-> k]) :
                               k \in DisputedXpubs(this, that)}
             \/ res.out.tag = "panic" /\ DisputedXpubs(this, that) # {}
        /\ (this.tx_version = that.tx_version /\ DisputedXpubs(this, that) = {}
              /\ MismatchedInputs(this, that) # {}) =>
             res.out = FirstInputMismatch(this, that)

\* C6, witness: the second paired input differs in its output index only,
\* and the error carries both indices.
C6_Witness ==
    /\ Combined
    /\ Len(this.inputs) = 2
    /\ MismatchedInputs(this, that) = {2}
    /\ this.inputs[2].previous_txid = that.inputs[2].previous_txid
    /\ res.out = Err([kind |-> "SpentOutputIndexMismatch", this |-> 0, that |-> 1])

\* The optional scalar fields C7 names, of an input and of an output.
C7_InputFields ==
    {"sequence", "min_time", "min_height", "non_witness_utxo", "witness_utxo",
     "redeem_script", "witness_script", "final_script_sig",
     "final_script_witness", "tap_key_sig", "tap_internal_key", "tap_merkle_root"}

C7_OutputFields ==
    {"redeem_script", "witness_script", "tap_internal_key", "tap_tree"}

\* The value of a if it has one, otherwise the value of b.
FirstPresent(a, b) == IF a # None THEN a ELSE b

\* C7 as stated: after a successful combine every optional scalar field of
\* every paired input and output holds the value of this if it had one and
\* otherwise the value of that.
C7_KeepsPresentValue ==
    (Combined /\ IsOk(res.out)) =>
        /\ \A i \in Paired(this.inputs, that.inputs) : \A f \in C7_InputFields :
             Result.inputs[i][f] = FirstPresent(this.inputs[i][f], that.inputs[i][f])
        /\ \A i \in Paired(this.outputs, that.outputs) : \A f \in C7_OutputFields :
             Result.outputs[i][f] = FirstPresent(this.outputs[i][f], that.outputs[i][f])

\* C7 as amended: the same for every field but non_witness_utxo, which is
\* None whenever this has no witness_utxo and that contributes one, and
\* follows the rule otherwise.
C7_KeepsPresentValueButUtxo ==
    (Combined /\ IsOk(res.out)) =>
        /\ \A i \in Paired(this.inputs, that.inputs) :
             /\ \A f \in C7_InputFields \ {"non_witness_utxo"} :
                  Result.inputs[i][f] =
                      FirstPresent(this.inputs[i][f], that.inputs[i][f])
             /\ Result.inputs[i].non_witness_utxo =
                  IF this.inputs[i].witness_utxo = None
                     /\ that.inputs[i].witness_utxo # None
                  THEN None
                  ELSE FirstPresent(this.inputs[i].non_witness_utxo,
                                    that.inputs[i].non_witness_utxo)
        /\ \A i \in Paired(this.outputs, that.outputs) : \A f \in C7_OutputFields :
             Result.outputs[i][f] = FirstPresent(this.outputs[i][f], that.outputs[i][f])

\* C7, witness: this holds a non_witness_utxo and no witness_utxo, that
\* contributes a witness_utxo, and the result has lost the non_witness_utxo
\* of this.
C7_Witness ==
    /\ Combined
    /\ IsOk(res.out)
    /\ Len(this.inputs) = 2 /\ Len(that.inputs) = 2
    /\ this.inputs[2].non_witness_utxo # None
    /\ this.inputs[2].witness_utxo = None
    /\ that.inputs[2].witness_utxo = Some(2)
    /\ Result.inputs[2].witness_utxo = Some(2)
    /\ Result.inputs[2].non_witness_utxo = None

\* C8 as stated: every map of every paired input and output is the union of
\* the two maps, with the entry of this under a key both hold.
C8_UnionPrefersThis ==
    (Combined /\ IsOk(res.out)) =>
        /\ \A i \in Paired(this.inputs, that.inputs) : \A f \in InputMapFields :
             /\ DOMAIN Result.inputs[i][f] =
                  (DOMAIN this.inputs[i][f]) \cup (DOMAIN that.inputs[i][f])
             /\ \A k \in DOMAIN Result.inputs[i][f] :
                  Result.inputs[i][f][k] =
                      IF k \in DOMAIN this.inputs[i][f]
                      THEN this.inputs[i][f][k] ELSE that.inputs[i][f][k]
        /\ \A i \in Paired(this.outputs, that.outputs) : \A f \in OutputMapFields :
             /\ DOMAIN Result.outputs[i][f] =
                  (DOMAIN this.outputs[i][f]) \cup (DOMAIN that.outputs[i][f])
             /\ \A k \in DOMAIN Result.outputs[i][f] :
                  Result.outputs[i][f][k] =
                      IF k \in DOMAIN this.outputs[i][f]
                      THEN this.outputs[i][f][k] ELSE that.outputs[i][f][k]

\* C8 as amended: the union of the two maps, with the entry of that under a
\* key both hold.
C8_UnionPrefersThat ==
    (Combined /\ IsOk(res.out)) =>
        /\ \A i \in Paired(this.inputs, that.inputs) : \A f \in InputMapFields :
             /\ DOMAIN Result.inputs[i][f] =
                  (DOMAIN this.inputs[i][f]) \cup (DOMAIN that.inputs[i][f])
             /\ \A k \in DOMAIN Result.inputs[i][f] :
                  Result.inputs[i][f][k] =
                      IF k \in DOMAIN that.inputs[i][f]
                      THEN that.inputs[i][f][k] ELSE this.inputs[i][f][k]
        /\ \A i \in Paired(this.outputs, that.outputs) : \A f \in OutputMapFields :
             /\ DOMAIN Result.outputs[i][f] =
                  (DOMAIN this.outputs[i][f]) \cup (DOMAIN that.outputs[i][f])
             /\ \A k \in DOMAIN Result.outputs[i][f] :
                  Result.outputs[i][f][k] =
                      IF k \in DOMAIN that.outputs[i][f]
                      THEN that.outputs[i][f][k] ELSE this.outputs[i][f][k]

\* C8, witness: both documents sign the first input under key k1 with
\* different signatures, only this signs under k2, and the result holds the
\* k1 signature of that beside the k2 signature of this.
C8_Witness ==
    /\ Combined
    /\ IsOk(res.out)
    /\ Len(this.inputs) >= 1 /\ Len(that.inputs) >= 1
    /\ DOMAIN this.inputs[1].partial_sigs = {"k1", "k2"}
    /\ DOMAIN that.inputs[1].partial_sigs = {"k1"}
    /\ this.inputs[1].partial_sigs["k1"] = 1
    /\ that.inputs[1].partial_sigs["k1"] = 2
    /\ Result.inputs[1].partial_sigs["k1"] = 2
    /\ Result.inputs[1].partial_sigs["k2"] = this.inputs[1].partial_sigs["k2"]

\* The path p is shorter than q and equals the last Len(p) steps of q.
IsTailOf(p, q) ==
    /\ Len(p) < Len(q)
    /\ \A i \in 1..Len(p) : p[i] = q[Len(q) - Len(p) + i]

\* Two key sources of different path lengths, the shorter path being the
\* tail of the longer.
SuffixRelated(s1, s2) ==
    \/ IsTailOf(s1.derivation, s2.derivation)
    \/ IsTailOf(s2.derivation, s1.derivation)

\* Of two suffix-related key sources, the one with the longer path.
Longer(s1, s2) == IF Len(s1.derivation) > Len(s2.derivation) THEN s1 ELSE s2

SharedXpubs(a, b) == (DOMAIN a.xpub) \cap (DOMAIN b.xpub)

\* The keys both maps hold under key sources that are neither identical nor
\* suffix-related.
InconsistentXpubs(a, b) ==
    {k \in SharedXpubs(a, b) :
        a.xpub[k] # b.xpub[k] /\ ~SuffixRelated(a.xpub[k], b.xpub[k])}

\* C9: a key both xpub maps hold under suffix-related key sources never
\* makes combine fail, and the result maps it to the key source with the
\* longer path, whichever document held it: combine succeeds when every key
\* both maps hold is held under identical or suffix-related key sources (and
\* the documents are compatible), and whenever combine succeeds each such
\* key is mapped to its longer-path key source.
C9_LongerPathKept ==
    Combined =>
        /\ (Compatible(this, that) /\ InconsistentXpubs(this, that) = {}) =>
             IsOk(res.out)
        /\ \A k \in SharedXpubs(this, that) :
             SuffixRelated(this.xpub[k], that.xpub[k]) =>
                /\ res.out # Err([kind |-> "InconsistentKeySources", xpub |-> k])
                /\ IsOk(res.out) =>
                     Result.xpub[k] = Longer(this.xpub[k], that.xpub[k])

\* C9, witness: that holds the longer path under another fingerprint, and
\* the result holds the key source of that.
C9_Witness ==
    /\ Combined
    /\ IsOk(res.out)
    /\ "X1" \in SharedXpubs(this, that)
    /\ this.xpub["X1"] = [fingerprint |-> "F1", derivation |-> <<2>>]
    /\ that.xpub["X1"] = [fingerprint |-> "F2", derivation |-> <<1, 2>>]
    /\ Result.xpub["X1"] = that.xpub["X1"]

\* C9, second witness: this holds the longer path, and the result keeps the
\* key source of this.
C9_WitnessThisLonger ==
    /\ Combined
    /\ IsOk(res.out)
    /\ "X1" \in SharedXpubs(this, that)
    /\ this.xpub["X1"] = [fingerprint |-> "F2", derivation |-> <<1, 2>>]
    /\ that.xpub["X1"] = [fingerprint |-> "F1", derivation |-> <<2>>]
    /\ Result.xpub["X1"] = this.xpub["X1"]

\* C10: when some key is held by both xpub maps under key sources that are
\* neither identical nor suffix-related, combine returns the
\* InconsistentKeySources error naming such a key (equal paths with
\* different fingerprints, unequal paths of equal length, or paths of
\* different length the shorter of which is not the tail of the longer,
\* whichever document holds the shorter).
C10_InconsistentKeySources ==
    (Combined /\ this.tx_version = that.tx_version
       /\ InconsistentXpubs(this, that) # {}) =>
        res.out \in {Err([kind |-> "InconsistentKeySources", xpub |-> k]) :
                        k \in InconsistentXpubs(this, that)}

----------------------------------------------------------------------------
(* The role workflow: Creator, Constructor, Updater, Signer, Finalizer and *)
(* Extractor.  A role value is the wrapped document tagged with the role's *)
(* type; a call moves its argument, so after a call the caller holds what  *)
(* the call returned and nothing else.                                     *)

\* Creator(Psbt), Constructor<T>(Psbt, PhantomData<T>), Updater(Psbt),
\* Signer(Psbt), Finalizer(Psbt), Extractor(Psbt).
Role(name, psbt) == [role |-> name, psbt |-> psbt]

\* FundingUtxoError.
OutOfBounds(vout, len) == [kind |-> "OutOfBounds", vout |-> vout, len |-> len]

MissingUtxo == [kind |-> "MissingUtxo"]

\* Input::funding_utxo with the two kinds of evidence taken in the other
\* order.
funding_utxo_preferring_non_witness(input) ==
    IF IsSome(input.non_witness_utxo)
    THEN LET tx   == Unwrap(input.non_witness_utxo)
             vout == input.spent_output_index
         IN  IF vout < Len(tx.output)
             THEN Ok(tx.output[vout + 1])
             ELSE Err(OutOfBounds(vout, Len(tx.output)))
    ELSE IF IsSome(input.witness_utxo)
    THEN Ok(Unwrap(input.witness_utxo))
    ELSE Err(MissingUtxo)

\* Input::funding_utxo.  tx.output.get(vout) indexes from zero.
funding_utxo(input) ==
    IF IsSome(input.witness_utxo)
    THEN Ok(Unwrap(input.witness_utxo))
    ELSE IF IsSome(input.non_witness_utxo)
    THEN LET tx   == Unwrap(input.non_witness_utxo)
             vout == input.spent_output_index
         IN  IF vout < Len(tx.output)
             THEN Ok(tx.output[vout + 1])
             ELSE Err(OutOfBounds(vout, Len(tx.output)))
    ELSE Err(MissingUtxo)

\* Input::is_finalized with either final field sufficing.
is_finalized_with_either(input) ==
    IsSome(input.final_script_sig) \/ IsSome(input.final_script_witness)

\* Input::is_finalized.
is_finalized(input) ==
    IsSome(input.final_script_sig) /\ IsSome(input.final_script_witness)

\* The sighash types: two standard ones, and a value that is no standard
\* type.
StandardSighashTypes == {"ALL", "SINGLE"}

PsbtSighashTypes == StandardSighashTypes \cup {"NONSTANDARD"}

\* PsbtSighashType::ecdsa_hash_ty.
ecdsa_hash_ty(ty) ==
    IF ty \in StandardSighashTypes
    THEN Ok(ty)
    ELSE Err([kind |-> "NonStandardSighashType", ty |-> ty])

\* ecdsa::Signature: the signature and the sighash type it commits to.
EcdsaSig(ty) == [signature |-> 1, sighash_type |-> ty]

\* The public keys, in the order of Ord for PublicKey (the iteration order
\* of a BTreeMap<PublicKey, ecdsa::Signature>).
KeyOrder == <<"k1", "k2">>

\* The least index of a set of indices: where an iteration in order stops.
Least(S) == CHOOSE i \in S : \A j \in S : i <= j

\* PartialSigsSighashTypeError.
NonStandardInputSighashType(input_index, error) ==
    [kind |-> "NonStandardInputSighashType", input_index |-> input_index, error |-> error]

WrongSighashFlag(input_index, required, got, pubkey) ==
    [kind |-> "WrongSighashFlag", input_index |-> input_index,
     required |-> required, got |-> got, pubkey |-> pubkey]

\* The body of the loop of check_partial_sigs_sighash_type for the input at
\* position i (input_index i - 1).  A partial signature holds an
\* EcdsaSighashType, so from_standard never fails on it.
CheckInputSighashType(i, input) ==
    LET target == IF IsSome(input.sighash_type)
                  THEN ecdsa_hash_ty(Unwrap(input.sighash_type))
                  ELSE Ok("ALL")
        wrong  == {k \in 1..Len(KeyOrder) :
                      /\ KeyOrder[k] \in DOMAIN input.partial_sigs
                      /\ input.partial_sigs[KeyOrder[k]].sighash_type # Unwrap(target.ok)}
    IN  IF IsErr(target)
        THEN Err(NonStandardInputSighashType(i - 1, Unwrap(target.err)))
        ELSE IF wrong # {}
        THEN LET key == KeyOrder[Least(wrong)]
             IN  Err(WrongSighashFlag(i - 1, Unwrap(target.ok),
                                      input.partial_sigs[key].sighash_type, key))
        ELSE Ok(<<>>)

\* Finalizer::check_partial_sigs_sighash_type: the first input that fails.
check_partial_sigs_sighash_type(psbt) ==
    LET failing == {i \in 1..Len(psbt.inputs) :
                       IsErr(CheckInputSighashType(i, psbt.inputs[i]))}
    IN  IF failing # {}
        THEN CheckInputSighashType(Least(failing), psbt.inputs[Least(failing)])
        ELSE Ok(<<>>)

\* finalizer::Error and ExtractError.
FundingUtxoError(e) == [kind |-> "FundingUtxo", source |-> e]

LockTimeError(e) == [kind |-> "DetermineLockTime", source |-> e]

PartialSigsSighashType(e) == [kind |-> "PartialSigsSighashType", source |-> e]

PsbtNotFinalized == [kind |-> "PsbtNotFinalized"]

\* Finalizer::new without the funding check.
FinalizerNewUnfunded(psbt) ==
    LET lock    == determine_lock_time(psbt)
        sighash == check_partial_sigs_sighash_type(psbt)
    IN  IF IsErr(lock)
        THEN Err(LockTimeError(Unwrap(lock.err)))
        ELSE IF ~IsOk(lock)
        THEN Panic
        ELSE IF IsErr(sighash)
        THEN Err(PartialSigsSighashType(Unwrap(sighash.err)))
        ELSE Ok(Role("Finalizer", psbt))

\* Finalizer::new.  Its first line asks every input, in order, for its
\* funding UTXO and returns the first error.
FinalizerNew(psbt) ==
    LET unfunded == {i \in 1..Len(psbt.inputs) : IsErr(funding_utxo(psbt.inputs[i]))}
        lock     == determine_lock_time(psbt)
        sighash  == check_partial_sigs_sighash_type(psbt)
    IN  IF unfunded # {}
        THEN Err(FundingUtxoError(Unwrap(funding_utxo(psbt.inputs[Least(unfunded)]).err)))
        ELSE IF IsErr(lock)
        THEN Err(LockTimeError(Unwrap(lock.err)))
        ELSE IF ~IsOk(lock)
        THEN Panic
        ELSE IF IsErr(sighash)
        THEN Err(PartialSigsSighashType(Unwrap(sighash.err)))
        ELSE Ok(Role("Finalizer", psbt))

\* Extractor::new.
ExtractorNew(psbt) ==
    LET lock == determine_lock_time(psbt)
    IN  IF \E i \in 1..Len(psbt.inputs) : ~is_finalized(psbt.inputs[i])
        THEN Err(PsbtNotFinalized)
        ELSE IF IsErr(lock)
        THEN Err(LockTimeError(Unwrap(lock.err)))
        ELSE IF ~IsOk(lock)
        THEN Panic
        ELSE Ok(Role("Extractor", psbt))

\* Updater::from_psbt and Signer::new: determine_lock_time()? and wrap.
EnterIfLockTime(name, psbt) ==
    LET lock == determine_lock_time(psbt)
    IN  IF IsErr(lock)
        THEN Err(Unwrap(lock.err))
        ELSE IF ~IsOk(lock)
        THEN Panic
        ELSE Ok(Role(name, psbt))

UpdaterFromPsbt(psbt) == EnterIfLockTime("Updater", psbt)

SignerNew(psbt) == EnterIfLockTime("Signer", psbt)

----------------------------------------------------------------------------
(* The entry checks of the roles applied to bounded documents. *)

\* The partial-signature maps over MapKeys.
SigMaps ==
    {EmptyMap,
     [k \in {"k1"} |-> EcdsaSig("ALL")],
     [k \in {"k1"} |-> EcdsaSig("SINGLE")],
     [k \in {"k1", "k2"} |-> EcdsaSig("ALL")],
     [k \in {"k1", "k2"} |-> IF k = "k1" THEN EcdsaSig("ALL") ELSE EcdsaSig("SINGLE")]}

\* Inputs that differ in their funding evidence and their signatures.
FundingInputs ==
    {[NewInput(1, vout) EXCEPT !.non_witness_utxo = nwu, !.witness_utxo = wu,
                               !.partial_sigs = sigs, !.sighash_type = ty] :
        vout \in Vouts, nwu \in Option(Txs), wu \in Option(TxOuts),
        sigs \in SigMaps, ty \in Option(PsbtSighashTypes)}

\* Funded inputs that differ in their final fields and their lock times.
FinalInputs ==
    {[NewInput(1, 0) EXCEPT !.witness_utxo = Some(1),
                            !.final_script_sig = fs, !.final_script_witness = fw,
                            !.min_time = mt, !.min_height = mh] :
        fs \in Option({1}), fw \in Option(Witnesses),
        mt \in Option(Times), mh \in Option(Heights)}

EntryInputs == FundingInputs \cup FinalInputs

\* The inputs beside the one that varies: a funded and finalized one, one
\* with neither funding evidence nor final fields, and a funded and
\* finalized one that requires a time-based lock time.
OtherInputs ==
    {[NewInput(1, 0) EXCEPT !.witness_utxo = Some(1), !.final_script_sig = Some(1),
                            !.final_script_witness = Some(<<1>>)],
     NewInput(1, 0),
     [NewInput(1, 0) EXCEPT !.witness_utxo = Some(1), !.final_script_sig = Some(1),
                            !.final_script_witness = Some(<<1>>), !.min_time = Some(1)]}

\* A document whose inputs are OtherInputs but for one of EntryInputs.
InitEntry ==
    /\ \E n \in 0..MaxInputs :
          \E k \in 1..n, varied \in EntryInputs, others \in [1..n -> OtherInputs] :
             this = NewPsbt(2, LockTimeZERO, EmptyMap,
                            [i \in 1..n |->
                                [(IF i = k THEN varied ELSE others[i])
                                    EXCEPT !.previous_txid = i]],
                            OutputsOf(NewOutput(1, 1), 1))
    /\ that = NewPsbt(2, LockTimeZERO, EmptyMap, <<>>, <<>>)
    /\ res = NotCalled
    /\ rev = NotCalled

\* this.inputs[i].funding_utxo().
FundingUtxo ==
    /\ res.op = "none"
    /\ \E i \in 1..Len(this.inputs) :
          res' = [op |-> "funding_utxo", index |-> i, out |-> funding_utxo(this.inputs[i])]
    /\ UNCHANGED <<this, that, rev>>

\* Updater::from_psbt(this).
EnterUpdater ==
    /\ res.op = "none"
    /\ res' = [op |-> "Updater::from_psbt", out |-> UpdaterFromPsbt(this)]
    /\ UNCHANGED <<this, that, rev>>

\* Signer::new(this).
EnterSigner ==
    /\ res.op = "none"
    /\ res' = [op |-> "Signer::new", out |-> SignerNew(this)]
    /\ UNCHANGED <<this, that, rev>>

\* Finalizer::new(this).
EnterFinalizer ==
    /\ res.op = "none"
    /\ res' = [op |-> "Finalizer::new", out |-> FinalizerNew(this)]
    /\ UNCHANGED <<this, that, rev>>

\* Extractor::new(this).
EnterExtractor ==
    /\ res.op = "none"
    /\ res' = [op |-> "Extractor::new", out |-> ExtractorNew(this)]
    /\ UNCHANGED <<this, that, rev>>

NextEntry == FundingUtxo \/ EnterUpdater \/ EnterSigner \/ EnterFinalizer \/ EnterExtractor

SpecEntry == InitEntry /\ [][NextEntry]_vars

----------------------------------------------------------------------------
(* Claims about the entry checks. *)

\* The input funding_utxo was called on.
Asked == this.inputs[res.index]

\* C14: Input::funding_utxo returns the attached witness_utxo whenever it
\* is present, also when a non_witness_utxo is present too; otherwise, with
\* a non_witness_utxo, that transaction's output at spent_output_index when
\* the index is below the output count and OutOfBounds{vout, len} when it
\* is not; and MissingUtxo when neither is present.
C14_FundingUtxo ==
    res.op = "funding_utxo" =>
        LET wu   == Asked.witness_utxo
            nwu  == Asked.non_witness_utxo
            vout == Asked.spent_output_index
        IN  /\ IsSome(wu) => res.out = Ok(wu[1])
            /\ (IsNone(wu) /\ IsSome(nwu) /\ vout < Len(nwu[1].output)) =>
                   res.out = Ok(nwu[1].output[vout + 1])
            /\ (IsNone(wu) /\ IsSome(nwu) /\ vout >= Len(nwu[1].output)) =>
                   res.out = Err([kind |-> "OutOfBounds", vout |-> vout,
                                  len |-> Len(nwu[1].output)])
            /\ (IsNone(wu) /\ IsNone(nwu)) => res.out = Err([kind |-> "MissingUtxo"])

\* funding_utxo was asked of an input with both kinds of evidence, whose
\* attached output differs from the one the attached transaction holds.
C14_Witness ==
    /\ res.op = "funding_utxo"
    /\ Asked.witness_utxo = Some(2)
    /\ Asked.non_witness_utxo = Some([output |-> <<1>>])
    /\ Asked.spent_output_index = 0
    /\ res.out = Ok(2)

\* funding_utxo was asked of an input whose attached transaction is too
\* short for its spent_output_index.
C14_WitnessOutOfBounds ==
    /\ res.op = "funding_utxo"
    /\ Asked.witness_utxo = None
    /\ Asked.non_witness_utxo = Some([output |-> <<1>>])
    /\ Asked.spent_output_index = 1
    /\ IsErr(res.out)

\* The input exposes no funding UTXO: no witness_utxo and either no
\* non_witness_utxo or one too short for spent_output_index.
NoFundingUtxo(input) ==
    /\ input.witness_utxo = None
    /\ \/ input.non_witness_utxo = None
       \/ input.spent_output_index >= Len(input.non_witness_utxo[1].output)

\* The sighash type the partial signatures of the input must commit to.
DeclaredSighashType(input) ==
    IF input.sighash_type = None THEN "ALL" ELSE input.sighash_type[1]

\* C12: Finalizer::new fails with the funding-UTXO error whenever some
\* input has no funding UTXO, whether or not that input carries partial
\* signatures; it succeeds only if every input exposes a funding UTXO, the
\* lock time can be determined and every partial signature's sighash type
\* equals the input's declared one (SIGHASH_ALL when none is declared).
C12_FinalizerGate ==
    res.op = "Finalizer::new" =>
        /\ (\E i \in 1..Len(this.inputs) : NoFundingUtxo(this.inputs[i])) =>
               /\ IsErr(res.out)
               /\ res.out.err[1].kind = "FundingUtxo"
        /\ IsOk(res.out) =>
               /\ \A i \in 1..Len(this.inputs) : ~NoFundingUtxo(this.inputs[i])
               /\ ~Conflict(this)
               /\ \A i \in 1..Len(this.inputs) :
                     \A k \in DOMAIN this.inputs[i].partial_sigs :
                        this.inputs[i].partial_sigs[k].sighash_type =
                            DeclaredSighashType(this.inputs[i])

\* Finalizer::new refused a document whose second input has partial
\* signatures of the right sighash type and no funding UTXO, the first
\* input being funded.
C12_Witness ==
    /\ res.op = "Finalizer::new"
    /\ Len(this.inputs) = 2
    /\ ~NoFundingUtxo(this.inputs[1])
    /\ NoFundingUtxo(this.inputs[2])
    /\ DOMAIN this.inputs[2].partial_sigs = {"k1"}
    /\ this.inputs[2].sighash_type = None
    /\ this.inputs[2].partial_sigs["k1"].sighash_type = "ALL"
    /\ res.out = Err(FundingUtxoError(MissingUtxo))

\* Finalizer::new accepted a document with partial signatures.
C12_WitnessAccepted ==
    /\ res.op = "Finalizer::new"
    /\ IsOk(res.out)
    /\ \E i \in 1..Len(this.inputs) : this.inputs[i].partial_sigs # EmptyMap

\* The input lacks one of its two final fields.
Unfinalized(input) ==
    input.final_script_sig = None \/ input.final_script_witness = None

\* C13: Extractor::new returns PsbtNotFinalized if any input lacks
\* final_script_sig or final_script_witness, and a lock-time error if all
\* are finalized and the lock time cannot be determined; hence every
\* Extractor wraps a document in which every input is finalized.
C13_ExtractorGate ==
    res.op = "Extractor::new" =>
        /\ (\E i \in 1..Len(this.inputs) : Unfinalized(this.inputs[i])) =>
               res.out = Err([kind |-> "PsbtNotFinalized"])
        /\ ((\A i \in 1..Len(this.inputs) : ~Unfinalized(this.inputs[i]))
               /\ Conflict(this)) =>
               /\ IsErr(res.out)
               /\ res.out.err[1].kind = "DetermineLockTime"
        /\ IsOk(res.out) =>
               /\ res.out.ok[1].role = "Extractor"
               /\ \A i \in 1..Len(res.out.ok[1].psbt.inputs) :
                     ~Unfinalized(res.out.ok[1].psbt.inputs[i])

\* Extractor::new refused a document whose first input has a
\* final_script_sig and no final_script_witness, the other input being
\* finalized.
C13_Witness ==
    /\ res.op = "Extractor::new"
    /\ Len(this.inputs) = 2
    /\ this.inputs[1].final_script_sig # None
    /\ this.inputs[1].final_script_witness = None
    /\ ~Unfinalized(this.inputs[2])
    /\ res.out = Err(PsbtNotFinalized)

\* Extractor::new accepted a document with two inputs.
C13_WitnessAccepted ==
    /\ res.op = "Extractor::new"
    /\ Len(this.inputs) = 2
    /\ IsOk(res.out)

\* Extractor::new refused a finalized document for its lock times.
C13_WitnessLockTime ==
    /\ res.op = "Extractor::new"
    /\ IsErr(res.out)
    /\ res.out.err[1].kind = "DetermineLockTime"

----------------------------------------------------------------------------
(* The Creator and the Constructor. *)

\* flags & bit > 0, for a bit that is a power of two.
HasFlag(flags, bit) == (flags \div bit) % 2 = 1

\* flags | bit and flags & !bit.
FlagSet(flags, bit) == IF HasFlag(flags, bit) THEN flags ELSE flags + bit

FlagCleared(flags, bit) == IF HasFlag(flags, bit) THEN flags - bit ELSE flags

set_inputs_modifiable_flag(psbt) ==
    [psbt EXCEPT !.tx_modifiable_flags = FlagSet(@, INPUTS_MODIFIABLE)]

set_outputs_modifiable_flag(psbt) ==
    [psbt EXCEPT !.tx_modifiable_flags = FlagSet(@, OUTPUTS_MODIFIABLE)]

set_sighash_single_flag(psbt) ==
    [psbt EXCEPT !.tx_modifiable_flags = FlagSet(@, SIGHASH_SINGLE)]

clear_inputs_modifiable_flag(psbt) ==
    [psbt EXCEPT !.tx_modifiable_flags = FlagCleared(@, INPUTS_MODIFIABLE)]

clear_outputs_modifiable_flag(psbt) ==
    [psbt EXCEPT !.tx_modifiable_flags = FlagCleared(@, OUTPUTS_MODIFIABLE)]

is_inputs_modifiable(psbt) == HasFlag(psbt.tx_modifiable_flags, INPUTS_MODIFIABLE)

is_outputs_modifiable(psbt) == HasFlag(psbt.tx_modifiable_flags, OUTPUTS_MODIFIABLE)

\* Psbt::empty: version two, no fallback lock time, no flag, no input and
\* no output.
PsbtEmpty == NewPsbt(2, LockTimeZERO, EmptyMap, <<>>, <<>>)

\* A document held outside every role.
Bare(psbt) == Role("Psbt", psbt)

Modifiable == "Constructor<Modifiable>"

InputsOnlyModifiable == "Constructor<InputsOnlyModifiable>"

OutputsOnlyModifiable == "Constructor<OutputsOnlyModifiable>"

\* The implementors of Mod.
Mod == {Modifiable, InputsOnlyModifiable, OutputsOnlyModifiable}

\* Creator::new.
CreatorNew == Role("Creator", PsbtEmpty)

\* Creator::constructor_modifiable, constructor_inputs_only_modifiable and
\* constructor_outputs_only_modifiable.
constructor_modifiable(creator) ==
    Role(Modifiable,
         set_outputs_modifiable_flag(set_inputs_modifiable_flag(creator.psbt)))

constructor_inputs_only_modifiable(creator) ==
    Role(InputsOnlyModifiable,
         clear_outputs_modifiable_flag(set_inputs_modifiable_flag(creator.psbt)))

constructor_outputs_only_modifiable(creator) ==
    Role(OutputsOnlyModifiable,
         set_outputs_modifiable_flag(clear_inputs_modifiable_flag(creator.psbt)))

\* PsbtNotModifiableError, InputsNotModifiableError, OutputsNotModifiableError.
InputsNotModifiableError == [kind |-> "InputsNotModifiableError"]

OutputsNotModifiableError == [kind |-> "OutputsNotModifiableError"]

PsbtNotModifiableError(cause) ==
    IF cause = InputsNotModifiableError
    THEN [kind |-> "PsbtNotModifiableError::Inputs", source |-> cause]
    ELSE [kind |-> "PsbtNotModifiableError::Outputs", source |-> cause]

\* Constructor<Modifiable>::from_psbt testing the outputs bit first.
ModifiableFromPsbtOutputsFirst(psbt) ==
    IF ~is_outputs_modifiable(psbt)
    THEN Err(PsbtNotModifiableError(OutputsNotModifiableError))
    ELSE IF ~is_inputs_modifiable(psbt)
    THEN Err(PsbtNotModifiableError(InputsNotModifiableError))
    ELSE Ok(Role(Modifiable, psbt))

\* Constructor<Modifiable>::from_psbt.
ModifiableFromPsbt(psbt) ==
    IF ~is_inputs_modifiable(psbt)
    THEN Err(PsbtNotModifiableError(InputsNotModifiableError))
    ELSE IF ~is_outputs_modifiable(psbt)
    THEN Err(PsbtNotModifiableError(OutputsNotModifiableError))
    ELSE Ok(Role(Modifiable, psbt))

\* Constructor<InputsOnlyModifiable>::from_psbt.
InputsOnlyFromPsbt(psbt) ==
    IF is_inputs_modifiable(psbt)
    THEN Ok(Role(InputsOnlyModifiable, psbt))
    ELSE Err(InputsNotModifiableError)

\* Constructor<OutputsOnlyModifiable>::from_psbt.
OutputsOnlyFromPsbt(psbt) ==
    IF is_outputs_modifiable(psbt)
    THEN Ok(Role(OutputsOnlyModifiable, psbt))
    ELSE Err(OutputsNotModifiableError)

\* Constructor::no_more_inputs and Constructor::no_more_outputs.
no_more_inputs(constructor) ==
    Role(constructor.role, clear_inputs_modifiable_flag(constructor.psbt))

no_more_outputs(constructor) ==
    Role(constructor.role, clear_outputs_modifiable_flag(constructor.psbt))

\* Constructor::into_inner.
into_inner(constructor) ==
    LET lock == determine_lock_time(constructor.psbt)
    IN  IF IsErr(lock)
        THEN Err(Unwrap(lock.err))
        ELSE IF ~IsOk(lock)
        THEN Panic
        ELSE Ok(Bare(constructor.psbt))

\* Constructor::updater.  The psbt() it calls with `?` is into_inner.
updater(constructor) ==
    LET inner == into_inner(no_more_outputs(no_more_inputs(constructor)))
    IN  IF IsOk(inner) THEN UpdaterFromPsbt(Unwrap(inner.ok).psbt) ELSE inner

\* Constructor::input that leaves input_count alone.
ConstructorInputUncounted(constructor, input) ==
    Role(constructor.role,
         [constructor.psbt EXCEPT !.inputs = Append(@, input)])

\* Constructor<Modifiable>::input and Constructor<InputsOnlyModifiable>::input.
ConstructorInput(constructor, input) ==
    Role(constructor.role,
         [constructor.psbt EXCEPT !.inputs = Append(@, input), !.input_count = @ + 1])

\* Constructor<Modifiable>::output and Constructor<OutputsOnlyModifiable>::output.
ConstructorOutput(constructor, output) ==
    Role(constructor.role,
         [constructor.psbt EXCEPT !.outputs = Append(@, output), !.output_count = @ + 1])

----------------------------------------------------------------------------
(* The Creator and the Constructor driven from Creator::new.  res holds   *)
(* what the last call returned, this the document that was moved into it. *)

\* The value the caller holds.
Held == Unwrap(res.out.ok)

Holds(roles) == IsOk(res.out) /\ Held.role \in roles

\* A call that returns a Result.
Call(op, out) ==
    /\ this' = Held.psbt
    /\ res' = [op |-> op, out |-> out]
    /\ UNCHANGED <<that, rev>>

\* The inputs a Constructor is given: one without a lock time, one that
\* requires a time and one that requires a height.
ConstructorInputs ==
    {NewInput(1, 0),
     [NewInput(1, 0) EXCEPT !.min_time = Some(1)],
     [NewInput(1, 0) EXCEPT !.min_height = Some(1)]}

InitConstructor ==
    /\ this = PsbtEmpty
    /\ that = PsbtEmpty
    /\ res = [op |-> "Creator::new", out |-> Ok(CreatorNew)]
    /\ rev = NotCalled

CreatorFallbackLockTime ==
    /\ Holds({"Creator"})
    /\ \E fallback \in Fallbacks :
          Call("Creator::fallback_lock_time",
               Ok(Role("Creator", [Held.psbt EXCEPT !.fallback_lock_time = fallback])))

CreatorSighashSingle ==
    /\ Holds({"Creator"})
    /\ Call("Creator::sighash_single",
            Ok(Role("Creator", set_sighash_single_flag(Held.psbt))))

CreatorInputsModifiable ==
    /\ Holds({"Creator"})
    /\ Call("Creator::inputs_modifiable",
            Ok(Role("Creator", set_inputs_modifiable_flag(Held.psbt))))

CreatorOutputsModifiable ==
    /\ Holds({"Creator"})
    /\ Call("Creator::outputs_modifiable",
            Ok(Role("Creator", set_outputs_modifiable_flag(Held.psbt))))

CreatorTransactionVersion ==
    /\ Holds({"Creator"})
    /\ \E version \in TxVersions :
          Call("Creator::transaction_version",
               Ok(Role("Creator", [Held.psbt EXCEPT !.tx_version = version])))

CreatorConstructorModifiable ==
    /\ Holds({"Creator"})
    /\ Call("Creator::constructor_modifiable", Ok(constructor_modifiable(Held)))

CreatorConstructorInputsOnlyModifiable ==
    /\ Holds({"Creator"})
    /\ Call("Creator::constructor_inputs_only_modifiable",
            Ok(constructor_inputs_only_modifiable(Held)))

CreatorConstructorOutputsOnlyModifiable ==
    /\ Holds({"Creator"})
    /\ Call("Creator::constructor_outputs_only_modifiable",
            Ok(constructor_outputs_only_modifiable(Held)))

CreatorPsbt ==
    /\ Holds({"Creator"})
    /\ Call("Creator::psbt", Ok(Bare(Held.psbt)))

ModifiableFromPsbtCall ==
    /\ Holds({"Psbt"})
    /\ Call("Constructor<Modifiable>::from_psbt", ModifiableFromPsbt(Held.psbt))

InputsOnlyFromPsbtCall ==
    /\ Holds({"Psbt"})
    /\ Call("Constructor<InputsOnlyModifiable>::from_psbt", InputsOnlyFromPsbt(Held.psbt))

OutputsOnlyFromPsbtCall ==
    /\ Holds({"Psbt"})
    /\ Call("Constructor<OutputsOnlyModifiable>::from_psbt", OutputsOnlyFromPsbt(Held.psbt))

\* Constructor::input, on the two types that have it.
InputCall ==
    /\ Holds({Modifiable, InputsOnlyModifiable})
    /\ Len(Held.psbt.inputs) < MaxInputs
    /\ \E input \in ConstructorInputs :
          Call("Constructor::input",
               Ok(ConstructorInput(Held, [input EXCEPT !.previous_txid =
                                                           Len(Held.psbt.inputs) + 1])))

\* Constructor::output, on the two types that have it.
OutputCall ==
    /\ Holds({Modifiable, OutputsOnlyModifiable})
    /\ Len(Held.psbt.outputs) < MaxOutputs
    /\ Call("Constructor::output",
            Ok(ConstructorOutput(Held, NewOutput(Len(Held.psbt.outputs) + 1, 1))))

NoMoreInputsCall ==
    /\ Holds(Mod)
    /\ Call("Constructor::no_more_inputs", Ok(no_more_inputs(Held)))

NoMoreOutputsCall ==
    /\ Holds(Mod)
    /\ Call("Constructor::no_more_outputs", Ok(no_more_outputs(Held)))

IntoInnerCall ==
    /\ Holds(Mod)
    /\ Call("Constructor::into_inner", into_inner(Held))

UpdaterCall ==
    /\ Holds(Mod)
    /\ Call("Constructor::updater", updater(Held))

NextConstructor ==
    \/ CreatorFallbackLockTime
    \/ CreatorSighashSingle
    \/ CreatorInputsModifiable
    \/ CreatorOutputsModifiable
    \/ CreatorTransactionVersion
    \/ CreatorConstructorModifiable
    \/ CreatorConstructorInputsOnlyModifiable
    \/ CreatorConstructorOutputsOnlyModifiable
    \/ CreatorPsbt
    \/ ModifiableFromPsbtCall
    \/ InputsOnlyFromPsbtCall
    \/ OutputsOnlyFromPsbtCall
    \/ InputCall
    \/ OutputCall
    \/ NoMoreInputsCall
    \/ NoMoreOutputsCall
    \/ IntoInnerCall
    \/ UpdaterCall

SpecConstructor == InitConstructor /\ [][NextConstructor]_vars

----------------------------------------------------------------------------
(* Claims about the Creator and the Constructor. *)

\* The inputs-modifiable and the outputs-modifiable bit of a document.
InputsBit(psbt) == psbt.tx_modifiable_flags % 2 = 1

OutputsBit(psbt) == (psbt.tx_modifiable_flags \div 2) % 2 = 1

\* C11: Constructor::from_psbt succeeds only if the bits its variant needs
\* are set: the inputs-only variant fails with InputsNotModifiableError
\* when the inputs bit is clear, the outputs-only variant with
\* OutputsNotModifiableError when the outputs bit is clear, and the
\* combined variant with PsbtNotModifiableError holding the cause that is
\* unset, the inputs cause when both are clear.
C11_FromPsbtGate ==
    /\ res.op = "Constructor<InputsOnlyModifiable>::from_psbt" =>
          /\ ~InputsBit(this) => res.out = Err([kind |-> "InputsNotModifiableError"])
          /\ IsOk(res.out) => InputsBit(this) /\ Held = Role(InputsOnlyModifiable, this)
    /\ res.op = "Constructor<OutputsOnlyModifiable>::from_psbt" =>
          /\ ~OutputsBit(this) => res.out = Err([kind |-> "OutputsNotModifiableError"])
          /\ IsOk(res.out) => OutputsBit(this) /\ Held = Role(OutputsOnlyModifiable, this)
    /\ res.op = "Constructor<Modifiable>::from_psbt" =>
          /\ ~InputsBit(this) =>
                res.out = Err([kind   |-> "PsbtNotModifiableError::Inputs",
                               source |-> [kind |-> "InputsNotModifiableError"]])
          /\ (InputsBit(this) /\ ~OutputsBit(this)) =>
                res.out = Err([kind   |-> "PsbtNotModifiableError::Outputs",
                               source |-> [kind |-> "OutputsNotModifiableError"]])
          /\ IsOk(res.out) =>
                InputsBit(this) /\ OutputsBit(this) /\ Held = Role(Modifiable, this)

\* The combined variant refused a document with neither bit set.
C11_Witness ==
    /\ res.op = "Constructor<Modifiable>::from_psbt"
    /\ ~InputsBit(this)
    /\ ~OutputsBit(this)
    /\ IsErr(res.out)

\* The combined variant refused a document that has an input, the outputs
\* bit set and the inputs bit cleared by no_more_inputs().
C11_WitnessNoMoreInputs ==
    /\ res.op = "Constructor<Modifiable>::from_psbt"
    /\ Len(this.inputs) > 0
    /\ ~InputsBit(this)
    /\ OutputsBit(this)
    /\ IsErr(res.out)

\* The inputs-only variant refused such a document.
C11_WitnessInputsOnly ==
    /\ res.op = "Constructor<InputsOnlyModifiable>::from_psbt"
    /\ Len(this.inputs) > 0
    /\ ~InputsBit(this)
    /\ IsErr(res.out)

\* The outputs-only variant accepted a document.
C11_WitnessAccepted ==
    /\ res.op = "Constructor<OutputsOnlyModifiable>::from_psbt"
    /\ IsOk(res.out)

\* The calls that enter a stage of the workflow.
EntryOps ==
    {"Constructor<Modifiable>::from_psbt", "Constructor<InputsOnlyModifiable>::from_psbt",
     "Constructor<OutputsOnlyModifiable>::from_psbt", "Constructor::updater",
     "Constructor::into_inner", "Updater::from_psbt", "Signer::new", "Finalizer::new",
     "Extractor::new"}

\* C17: whenever entry into a workflow stage fails, the caller receives,
\* together with the error, the document it passed in, unchanged in every
\* field.
C17_DocumentReturnedOnFailure ==
    (res.op \in EntryOps /\ IsErr(res.out)) =>
        /\ "psbt" \in DOMAIN Unwrap(res.out.err)
        /\ Unwrap(res.out.err).psbt = this

\* C19: in every sequence of Constructor operations an input is appended
\* only while the inputs-modifiable bit is set and an output only while the
\* outputs-modifiable bit is set, so that no input() after no_more_inputs()
\* (no output() after no_more_outputs()) adds an element, and no
\* Constructor operation sets a cleared bit again.
C19_AppendOnlyWhileModifiable ==
    [][(Holds(Mod) /\ IsOk(res'.out) /\ Held'.role \in Mod) =>
          /\ Len(Held'.psbt.inputs) > Len(Held.psbt.inputs) => InputsBit(Held.psbt)
          /\ Len(Held'.psbt.outputs) > Len(Held.psbt.outputs) => OutputsBit(Held.psbt)
          /\ ~InputsBit(Held.psbt) => ~InputsBit(Held'.psbt)
          /\ ~OutputsBit(Held.psbt) => ~OutputsBit(Held'.psbt)]_vars

\* The part of C19 about the bits alone: no Constructor operation sets a
\* cleared bit again.
C19_BitsStayCleared ==
    [][(Holds(Mod) /\ IsOk(res'.out) /\ Held'.role \in Mod) =>
          /\ ~InputsBit(Held.psbt) => ~InputsBit(Held'.psbt)
          /\ ~OutputsBit(Held.psbt) => ~OutputsBit(Held'.psbt)]_vars

\* C20: every document reachable from Creator::new through the operations
\* of the Creator and the Constructor counts as many inputs as it has and
\* as many outputs as it has.
C20_CountsMatch ==
    IsOk(res.out) =>
        /\ Held.psbt.input_count = Len(Held.psbt.inputs)
        /\ Held.psbt.output_count = Len(Held.psbt.outputs)

\* A Constructor was entered again, through into_inner and from_psbt, with
\* a document that has inputs and an output.
C20_Witness ==
    /\ res.op = "Constructor<Modifiable>::from_psbt"
    /\ IsOk(res.out)
    /\ Len(Held.psbt.inputs) = MaxInputs
    /\ Len(Held.psbt.outputs) = MaxOutputs
    /\ Held.psbt.input_count = MaxInputs

----------------------------------------------------------------------------
(* The Signer. *)

\* What the signing collaborator does with one input: it signs with one of
\* the keys, or it fails.
SignOutcomes == MapKeys \cup {"error"}

\* The signature the collaborator produces, and one made earlier.
NewSig == EcdsaSig("ALL")

OldSig == [signature |-> 2, sighash_type |-> "ALL"]

\* The map m with key k set to v, whether or not m had the key
\* (BTreeMap::insert).
Insert(m, k, v) == [x \in DOMAIN m \cup {k} |-> IF x = k THEN v ELSE m[x]]

\* Psbt::sign: every input the collaborator signs gets the signature under
\* the key used, the others an error; the result is the map of the keys
\* used, alone or beside the map of the errors.  psbt is the document as
\* the call leaves it.
PsbtSign(psbt, outcomes) ==
    LET signed == {i \in 1..Len(psbt.inputs) : outcomes[i] # "error"}
        failed == {i \in 1..Len(psbt.inputs) : outcomes[i] = "error"}
        used   == [j \in {i - 1 : i \in signed} |-> outcomes[j + 1]]
        errors == [j \in {i - 1 : i \in failed} |-> [kind |-> "SignError"]]
    IN  [psbt |-> [psbt EXCEPT !.inputs =
                      [i \in 1..Len(psbt.inputs) |->
                          IF i \in signed
                          THEN [psbt.inputs[i] EXCEPT !.partial_sigs =
                                   Insert(@, outcomes[i], NewSig)]
                          ELSE psbt.inputs[i]]],
         out  |-> IF failed = {}
                  THEN Ok(used)
                  ELSE Err([signing_keys |-> used, signing_errors |-> errors])]

\* Signer::sign: psbt.sign(tx, k, secp).map(|signing_keys| (psbt, signing_keys)).
\* The tuple (Psbt, SigningKeys) is a bare document beside the keys.
SignerSign(signer, outcomes) ==
    LET signed == PsbtSign(signer.psbt, outcomes)
    IN  IF IsOk(signed.out)
        THEN Ok([role |-> "Psbt", psbt |-> signed.psbt,
                 signing_keys |-> Unwrap(signed.out.ok)])
        ELSE signed.out

\* Psbt::clear_tx_modifiable(sighash_type), for the sighash types without
\* ANYONECANPAY and other than NONE: the signature commits to every input
\* and to outputs, so both modifiable bits are cleared; a SIGHASH_SINGLE
\* signature sets the has-SIGHASH_SINGLE bit.
PsbtClearTxModifiable(psbt, ty) ==
    LET cleared == clear_outputs_modifiable_flag(clear_inputs_modifiable_flag(psbt))
    IN  IF ty = "SINGLE" THEN set_sighash_single_flag(cleared) ELSE cleared

\* Signer::ecdsa_clear_tx_modifiable(&mut self, ty): the signer afterwards.
ecdsa_clear_tx_modifiable(signer, ty) ==
    Role("Signer", PsbtClearTxModifiable(signer.psbt, ty))

\* The modifiability bitfields a document enters the Signer with.
SignerFlags ==
    {0, INPUTS_MODIFIABLE, OUTPUTS_MODIFIABLE, INPUTS_MODIFIABLE + OUTPUTS_MODIFIABLE}

\* Inputs with and without an earlier signature, and with a lock time.
SignerInputs ==
    {[NewInput(1, 0) EXCEPT !.witness_utxo = Some(1), !.partial_sigs = sigs,
                            !.min_time = mt] :
        sigs \in {EmptyMap, [k \in {"k1"} |-> OldSig]}, mt \in Option({1})}

InitSigner ==
    /\ \E inputs \in SeqUpTo(SignerInputs, MaxInputs), flags \in SignerFlags :
          this = [NewPsbt(2, LockTimeZERO, EmptyMap,
                          [i \in 1..Len(inputs) |-> [inputs[i] EXCEPT !.previous_txid = i]],
                          OutputsOf(NewOutput(1, 1), 1))
                  EXCEPT !.tx_modifiable_flags = flags]
    /\ that = NewPsbt(2, LockTimeZERO, EmptyMap, <<>>, <<>>)
    /\ res = NotCalled
    /\ rev = NotCalled

\* signer.sign(k, secp), under every behaviour of the collaborator.
SignCall ==
    /\ Holds({"Signer"})
    /\ \E outcomes \in [1..Len(Held.psbt.inputs) -> SignOutcomes] :
          Call("Signer::sign", SignerSign(Held, outcomes))

\* signer.ecdsa_clear_tx_modifiable(ty), the call the user may make before
\* sign (sign consumes the Signer).
EcdsaClearTxModifiableCall ==
    /\ Holds({"Signer"})
    /\ \E ty \in StandardSighashTypes :
          Call("Signer::ecdsa_clear_tx_modifiable", Ok(ecdsa_clear_tx_modifiable(Held, ty)))

NextSigner == EnterSigner \/ SignCall \/ EcdsaClearTxModifiableCall

SpecSigner == InitSigner /\ [][NextSigner]_vars

----------------------------------------------------------------------------
(* Claims about the Signer. *)

\* C18: when Signer::sign fails for some inputs after producing signatures
\* for others, the caller still holds, after the error, a document whose
\* partial_sigs contain the signatures that were produced.
C18_SignaturesKeptOnFailure ==
    (res.op = "Signer::sign" /\ IsErr(res.out)) =>
        LET keys == Unwrap(res.out.err).signing_keys
        IN  keys # EmptyMap =>
               /\ "psbt" \in DOMAIN Unwrap(res.out.err)
               /\ \A j \in DOMAIN keys :
                     keys[j] \in DOMAIN Unwrap(res.out.err).psbt.inputs[j + 1].partial_sigs

\* When Signer::sign succeeds, the document it returns holds every
\* signature, an earlier one under the same key being replaced.
C18_SignaturesKeptOnSuccess ==
    (res.op = "Signer::sign" /\ IsOk(res.out)) =>
        \A j \in DOMAIN Held.signing_keys :
            Held.psbt.inputs[j + 1].partial_sigs[Held.signing_keys[j]] = NewSig

----------------------------------------------------------------------------
(* The conversions between the strict document and the wire document      *)
(* bitcoin::Psbt, in which every version-specific field is an Option.     *)

\* The record r with the fields of extra added or replaced.
With(r, extra) ==
    [f \in DOMAIN r \cup DOMAIN extra |-> IF f \in DOMAIN extra THEN extra[f] ELSE r[f]]

\* Input::to_v2.
InputToV2(input) ==
    With(input, [previous_txid      |-> Some(input.previous_txid),
                 spent_output_index |-> Some(input.spent_output_index),
                 proprietary        |-> EmptyMap,
                 unknown            |-> EmptyMap])

\* Input::to_v0.  The wire input has no max_height; min_time is left as
\* to_v2 set it.
InputToV0(input) ==
    [InputToV2(input) EXCEPT !.previous_txid = None, !.spent_output_index = None,
                             !.sequence = None, !.min_height = None]

\* input::assert_is_valid_v2 and input::assert_is_valid_v0.
InputAssertIsValidV2(input) ==
    IF IsNone(input.previous_txid) THEN Err([kind |-> "MissingPreviousTxid"])
    ELSE IF IsNone(input.spent_output_index) THEN Err([kind |-> "MissingSpentOutputIndex"])
    ELSE Ok(<<>>)

InputAssertIsValidV0(input) ==
    IF IsSome(input.sequence) THEN Err([kind |-> "HasSequence"])
    ELSE IF IsSome(input.min_time) THEN Err([kind |-> "HasMinTime"])
    ELSE IF IsSome(input.min_height) THEN Err([kind |-> "HasMinHeight"])
    ELSE Ok(<<>>)

\* The fields Input::from_v2 and Input::from_v0 copy from the wire input.
InputCopied(input, txid, vout, sequence, min_time, min_height) ==
    [ non_witness_utxo     |-> input.non_witness_utxo,
      witness_utxo         |-> input.witness_utxo,
      partial_sigs         |-> input.partial_sigs,
      sighash_type         |-> input.sighash_type,
      redeem_script        |-> input.redeem_script,
      witness_script       |-> input.witness_script,
      bip32_derivation     |-> input.bip32_derivation,
      final_script_sig     |-> input.final_script_sig,
      final_script_witness |-> input.final_script_witness,
      ripemd160_preimages  |-> input.ripemd160_preimages,
      sha256_preimages     |-> input.sha256_preimages,
      hash160_preimages    |-> input.hash160_preimages,
      hash256_preimages    |-> input.hash256_preimages,
      previous_txid        |-> txid,
      spent_output_index   |-> vout,
      sequence             |-> sequence,
      min_time             |-> min_time,
      min_height           |-> min_height,
      tap_key_sig          |-> input.tap_key_sig,
      tap_script_sigs      |-> input.tap_script_sigs,
      tap_scripts          |-> input.tap_scripts,
      tap_key_origins      |-> input.tap_key_origins,
      tap_internal_key     |-> input.tap_internal_key,
      tap_merkle_root      |-> input.tap_merkle_root ]

\* Input::from_v2 that drops the sequence number.
InputFromV2NoSequence(input) ==
    LET valid == InputAssertIsValidV2(input)
    IN  IF IsErr(valid)
        THEN valid
        ELSE Ok(InputCopied(input, Unwrap(input.previous_txid),
                            Unwrap(input.spent_output_index),
                            None, input.min_time, input.min_height))

\* Input::from_v2.
InputFromV2(input) ==
    LET valid == InputAssertIsValidV2(input)
    IN  IF IsErr(valid)
        THEN valid
        ELSE Ok(InputCopied(input, Unwrap(input.previous_txid),
                            Unwrap(input.spent_output_index),
                            input.sequence, input.min_time, input.min_height))

\* Input::from_v0.
InputFromV0(input, prevout) ==
    LET valid == InputAssertIsValidV0(input)
    IN  IF IsErr(valid)
        THEN valid
        ELSE Ok(InputCopied(input, prevout.txid, prevout.vout, None, None, None))

\* Sequence::MAX, 0xFFFFFFFF in the code: here the greatest integer of the
\* model checker, above every sequence number a document holds.
SequenceMAX == 2147483647

\* Input::unsigned_tx_in.
unsigned_tx_in(input) ==
    [ previous_output |-> [txid |-> input.previous_txid, vout |-> input.spent_output_index],
      script_sig      |-> <<>>,
      sequence        |-> IF IsSome(input.sequence) THEN Unwrap(input.sequence)
                          ELSE SequenceMAX,
      witness         |-> <<>> ]

\* Output::to_v2 and Output::to_v0.
OutputToV2(output) ==
    With(output, [amount        |-> Some(output.amount),
                  script_pubkey |-> Some(output.script_pubkey),
                  proprietary   |-> EmptyMap,
                  unknown       |-> EmptyMap])

OutputToV0(output) ==
    [OutputToV2(output) EXCEPT !.amount = None, !.script_pubkey = None]

\* output::assert_is_valid_v2 and output::assert_is_valid_v0 (whose test of
\* `sequence` is read as the test of `amount` its error names).
OutputAssertIsValidV2(output) ==
    IF IsNone(output.amount) THEN Err([kind |-> "MissingAmount"])
    ELSE IF IsNone(output.script_pubkey) THEN Err([kind |-> "MissingScriptPubkey"])
    ELSE Ok(<<>>)

OutputAssertIsValidV0(output) ==
    IF IsSome(output.amount) THEN Err([kind |-> "HasAmount"])
    ELSE IF IsSome(output.script_pubkey) THEN Err([kind |-> "HasScriptPubkey"])
    ELSE Ok(<<>>)

\* The fields Output::from_v2 and Output::from_v0 copy from the wire output.
OutputCopied(output, amount, script_pubkey) ==
    [ redeem_script    |-> output.redeem_script,
      witness_script   |-> output.witness_script,
      bip32_derivation |-> output.bip32_derivation,
      amount           |-> amount,
      script_pubkey    |-> script_pubkey,
      tap_internal_key |-> output.tap_internal_key,
      tap_tree         |-> output.tap_tree,
      tap_key_origins  |-> output.tap_key_origins ]

\* Output::from_v2.
OutputFromV2(output) ==
    LET valid == OutputAssertIsValidV2(output)
    IN  IF IsErr(valid)
        THEN valid
        ELSE Ok(OutputCopied(output, Unwrap(output.amount), Unwrap(output.script_pubkey)))

\* Output::from_v0.
OutputFromV0(output, txout) ==
    LET valid == OutputAssertIsValidV0(output)
    IN  IF IsErr(valid)
        THEN valid
        ELSE Ok(OutputCopied(output, txout.value, txout.script_pubkey))

\* Output::tx_out.
tx_out(output) == [value |-> output.amount, script_pubkey |-> output.script_pubkey]

\* Psbt::unsigned_tx.
unsigned_tx(psbt) ==
    LET lock == determine_lock_time(psbt)
    IN  IF IsErr(lock)
        THEN lock
        ELSE IF ~IsOk(lock)
        THEN Panic
        ELSE Ok([ version   |-> psbt.tx_version,
                  lock_time |-> Unwrap(lock.ok),
                  input     |-> [i \in 1..Len(psbt.inputs) |-> unsigned_tx_in(psbt.inputs[i])],
                  output    |-> [i \in 1..Len(psbt.outputs) |-> tx_out(psbt.outputs[i])] ])

\* Psbt::to_psbt_v2.
to_psbt_v2(psbt) ==
    [ unsigned_tx         |-> None,
      xpub                |-> psbt.xpub,
      tx_version          |-> Some(psbt.tx_version),
      fallback_lock_time  |-> Some(psbt.fallback_lock_time),
      input_count         |-> Some(psbt.input_count),
      output_count        |-> Some(psbt.output_count),
      tx_modifiable_flags |-> Some(psbt.tx_modifiable_flags),
      version             |-> 2,
      proprietary         |-> EmptyMap,
      unknown             |-> EmptyMap,
      inputs              |-> [i \in 1..Len(psbt.inputs) |-> InputToV2(psbt.inputs[i])],
      outputs             |-> [i \in 1..Len(psbt.outputs) |-> OutputToV2(psbt.outputs[i])] ]

\* Psbt::to_psbt_v0.  It has no way to return the error of unsigned_tx:
\* the call does not return when the lock time cannot be determined.
to_psbt_v0(psbt) ==
    LET tx == unsigned_tx(psbt)
    IN  IF ~IsOk(tx)
        THEN Panic
        ELSE Ok([ unsigned_tx         |-> Some(Unwrap(tx.ok)),
                  xpub                |-> psbt.xpub,
                  tx_version          |-> Some(psbt.tx_version),
                  fallback_lock_time  |-> None,
                  input_count         |-> None,
                  output_count        |-> None,
                  tx_modifiable_flags |-> None,
                  version             |-> 0,
                  proprietary         |-> EmptyMap,
                  unknown             |-> EmptyMap,
                  inputs              |-> [i \in 1..Len(psbt.inputs) |->
                                              InputToV0(psbt.inputs[i])],
                  outputs             |-> [i \in 1..Len(psbt.outputs) |->
                                              OutputToV0(psbt.outputs[i])] ])

\* assert_is_valid_v2 of the document.
PsbtAssertIsValidV2(psbt) ==
    IF IsNone(psbt.tx_version) THEN Err([kind |-> "MissingTxVersion"])
    ELSE IF IsNone(psbt.input_count) THEN Err([kind |-> "MissingInputCount"])
    ELSE IF IsNone(psbt.output_count) THEN Err([kind |-> "MissingOutputCount"])
    ELSE Ok(<<>>)

\* The conversion of every element of a sequence of results: the values,
\* or the first error under its index (InvalidInput(index, e),
\* InvalidOutput(index, e)).
Collected(results, kind) ==
    LET failing == {i \in 1..Len(results) : ~IsOk(results[i])}
    IN  IF failing = {}
        THEN Ok([i \in 1..Len(results) |-> Unwrap(results[i].ok)])
        ELSE Err([kind   |-> kind, index |-> Least(failing) - 1,
                  source |-> Unwrap(results[Least(failing)].err)])

\* Psbt::from_v2.
from_v2(psbt) ==
    LET valid   == PsbtAssertIsValidV2(psbt)
        inputs  == Collected([i \in 1..Len(psbt.inputs) |-> InputFromV2(psbt.inputs[i])],
                             "InvalidInput")
        outputs == Collected([i \in 1..Len(psbt.outputs) |-> OutputFromV2(psbt.outputs[i])],
                             "InvalidOutput")
    IN  IF IsErr(valid) THEN valid
        ELSE IF IsErr(inputs) THEN inputs
        ELSE IF IsErr(outputs) THEN outputs
        ELSE Ok([ tx_version          |-> Unwrap(psbt.tx_version),
                  fallback_lock_time  |-> IF IsSome(psbt.fallback_lock_time)
                                          THEN Unwrap(psbt.fallback_lock_time)
                                          ELSE LockTimeZERO,
                  input_count         |-> Unwrap(psbt.input_count),
                  output_count        |-> Unwrap(psbt.output_count),
                  tx_modifiable_flags |-> IF IsSome(psbt.tx_modifiable_flags)
                                          THEN Unwrap(psbt.tx_modifiable_flags)
                                          ELSE 0,
                  xpub                |-> psbt.xpub,
                  inputs              |-> Unwrap(inputs.ok),
                  outputs             |-> Unwrap(outputs.ok) ])

\* assert_is_valid_v0 of the document: the checks of its inputs and of its
\* outputs, the first error under its index.
PsbtAssertIsValidV0(psbt) ==
    LET inputs  == Collected([i \in 1..Len(psbt.inputs) |->
                                 InputAssertIsValidV0(psbt.inputs[i])],
                             "InvalidInput")
        outputs == Collected([i \in 1..Len(psbt.outputs) |->
                                 OutputAssertIsValidV0(psbt.outputs[i])],
                             "InvalidOutput")
    IN  IF IsErr(inputs) THEN inputs
        ELSE IF IsErr(outputs) THEN outputs
        ELSE Ok(<<>>)

\* Psbt::from_v0.  Each input takes its outpoint, each output its amount
\* and script, from the element of unsigned_tx at its position.
from_v0(psbt) ==
    LET valid   == PsbtAssertIsValidV0(psbt)
        tx      == Unwrap(psbt.unsigned_tx)
        inputs  == Collected([i \in 1..Len(psbt.inputs) |->
                                 InputFromV0(psbt.inputs[i], tx.input[i].previous_output)],
                             "InvalidInput")
        outputs == Collected([i \in 1..Len(psbt.outputs) |->
                                 OutputFromV0(psbt.outputs[i], tx.output[i])],
                             "InvalidOutput")
    IN  IF IsErr(valid) THEN valid
        ELSE IF IsNone(psbt.unsigned_tx) THEN Panic
        ELSE IF IsErr(inputs) THEN inputs
        ELSE IF IsErr(outputs) THEN outputs
        ELSE Ok([ tx_version          |-> 2,
                  fallback_lock_time  |-> LockTimeZERO,
                  input_count         |-> Len(tx.input),
                  output_count        |-> Len(tx.output),
                  tx_modifiable_flags |-> 0,
                  xpub                |-> psbt.xpub,
                  inputs              |-> Unwrap(inputs.ok),
                  outputs             |-> Unwrap(outputs.ok) ])

\* InvalidError.
V0Invalid(e) == [kind |-> "V0Invalid", source |-> e]

V2Invalid(e) == [kind |-> "V2Invalid", source |-> e]

UnsupportedVersion(version) == [kind |-> "UnsupportedVersion", version |-> version]

\* Psbt::from_psbt.
from_psbt(psbt) ==
    IF psbt.version = 0
    THEN IF IsErr(from_v0(psbt)) THEN Err(V0Invalid(Unwrap(from_v0(psbt).err)))
         ELSE from_v0(psbt)
    ELSE IF psbt.version = 2
    THEN IF IsErr(from_v2(psbt)) THEN Err(V2Invalid(Unwrap(from_v2(psbt).err)))
         ELSE from_v2(psbt)
    ELSE Err(UnsupportedVersion(psbt.version))

----------------------------------------------------------------------------
(* The conversions applied to bounded strict documents. *)

\* The inputs and outputs that differ from the plain one in one field.
VariedInputs == {pair[1] : pair \in InputPairs}

VariedOutputs == {pair[1] : pair \in OutputPairs}

\* The values of tx_modifiable_flags.
Flags == 0..7

\* A strict document that varies in its inputs, in its outputs, in the lock
\* times of its inputs, or in its global fields.
InitConvert ==
    /\ \/ \E n \in 0..MaxInputs, input \in VariedInputs, version \in TxVersions :
             this = NewPsbt(version, LockTimeZERO, EmptyMap,
                            InputsOf(input, n), OutputsOf(NewOutput(1, 1), 1))
       \/ \E m \in 0..MaxOutputs, output \in VariedOutputs :
             this = NewPsbt(2, LockTimeZERO, EmptyMap,
                            InputsOf(NewInput(1, 0), 1), OutputsOf(output, m))
       \/ \E inputs \in SeqUpTo(LockTimeInputs, MaxInputs) :
             this = NewPsbt(2, LockTimeZERO, EmptyMap,
                            [i \in 1..Len(inputs) |-> [inputs[i] EXCEPT !.previous_txid = i]],
                            OutputsOf(NewOutput(1, 1), 1))
       \/ \E version \in TxVersions, fallback \in Fallbacks, xpub \in FewXpubMaps,
             flags \in Flags :
             this = [NewPsbt(version, fallback, xpub, InputsOf(NewInput(1, 1), 1),
                             OutputsOf(NewOutput(1, 1), 1))
                        EXCEPT !.tx_modifiable_flags = flags]
    /\ that = NewPsbt(2, LockTimeZERO, EmptyMap, <<>>, <<>>)
    /\ res = NotCalled
    /\ rev = NotCalled

\* this.to_psbt_v2().
ToPsbtV2 ==
    /\ res.op = "none"
    /\ res' = [op |-> "to_psbt_v2", out |-> Ok(to_psbt_v2(this))]
    /\ UNCHANGED <<this, that, rev>>

\* this.to_psbt_v0().
ToPsbtV0 ==
    /\ res.op = "none"
    /\ res' = [op |-> "to_psbt_v0", out |-> to_psbt_v0(this)]
    /\ UNCHANGED <<this, that, rev>>

\* Psbt::from_psbt of the wire document the conversion returned.
FromPsbt ==
    /\ res.op \in {"to_psbt_v2", "to_psbt_v0"}
    /\ IsOk(res.out)
    /\ rev.op = "none"
    /\ rev' = [op |-> "from_psbt", out |-> from_psbt(Unwrap(res.out.ok))]
    /\ UNCHANGED <<this, that, res>>

NextConvert == ToPsbtV2 \/ ToPsbtV0 \/ FromPsbt

SpecConvert == InitConvert /\ [][NextConvert]_vars

----------------------------------------------------------------------------
(* Claims about the conversions. *)

\* The document the round trip returned.
Back == Unwrap(rev.out.ok)

\* C15: for every strict document d, to_psbt_v2 and then from_psbt succeeds
\* and returns a document equal to d in every field.
C15_RoundTripV2 ==
    (res.op = "to_psbt_v2" /\ rev.op = "from_psbt") =>
        /\ IsOk(rev.out)
        /\ Back = this

\* A document with two inputs that hold a sequence number was converted to
\* the wire document of version 2 and back.
C15_Witness ==
    /\ res.op = "to_psbt_v2"
    /\ rev.op = "from_psbt"
    /\ Len(this.inputs) = 2
    /\ this.inputs[2].sequence = Some(1)
    /\ Unwrap(res.out.ok).inputs[2].previous_txid = Some(2)
    /\ IsOk(rev.out)

\* The fields of an input and of an output that exist in both shapes.
SharedInputFields ==
    DOMAIN NewInput(1, 0) \ {"previous_txid", "spent_output_index", "sequence",
                             "min_time", "min_height"}

SharedOutputFields == DOMAIN NewOutput(1, 1) \ {"amount", "script_pubkey"}

\* The two documents agree but for the version-specific fields.
SameButVersionSpecific(d, e) ==
    /\ e.tx_version = d.tx_version
    /\ e.xpub = d.xpub
    /\ Len(e.inputs) = Len(d.inputs)
    /\ Len(e.outputs) = Len(d.outputs)
    /\ \A i \in 1..Len(d.inputs) :
          /\ e.inputs[i].previous_txid = d.inputs[i].previous_txid
          /\ e.inputs[i].spent_output_index = d.inputs[i].spent_output_index
          /\ \A f \in SharedInputFields : e.inputs[i][f] = d.inputs[i][f]
    /\ \A i \in 1..Len(d.outputs) :
          /\ e.outputs[i].amount = d.outputs[i].amount
          /\ e.outputs[i].script_pubkey = d.outputs[i].script_pubkey
          /\ \A f \in SharedOutputFields : e.outputs[i][f] = d.outputs[i][f]

\* C16: for every strict document d whose lock time can be determined,
\* to_psbt_v0 and then from_psbt succeeds and yields a document that equals
\* d on tx_version, on each input's previous_txid and spent_output_index,
\* on each output's amount and script_pubkey, on the xpub map and on every
\* field that exists in both shapes.
C16_RoundTripV0 ==
    (res.op = "to_psbt_v0" /\ IsOk(res.out) /\ rev.op = "from_psbt") =>
        /\ IsOk(rev.out)
        /\ SameButVersionSpecific(this, Back)

\* What is left of C16 for the documents of transaction version 2 whose
\* inputs have no min_time.
C16_RoundTripV0OfVersionTwoWithoutMinTime ==
    (res.op = "to_psbt_v0" /\ IsOk(res.out) /\ rev.op = "from_psbt"
        /\ this.tx_version = 2
        /\ \A i \in 1..Len(this.inputs) : this.inputs[i].min_time = None) =>
        /\ IsOk(rev.out)
        /\ SameButVersionSpecific(this, Back)

----------------------------------------------------------------------------
(* Further claims about the lock-time resolver, checked under SpecLockTime. *)

\* The positions of the inputs that carry a lock-time field.
Carriers(psbt) ==
    {i \in 1..Len(psbt.inputs) :
        psbt.inputs[i].min_time # None \/ psbt.inputs[i].min_height # None}

\* The minimum an input sets for a lock time of the given unit.
MinimumFor(input, unit) ==
    IF unit = "height" THEN input.min_height ELSE input.min_time

\* C21: whenever determine_lock_time succeeds and some input carries a
\* lock-time field, every input that carries one sets a minimum of the kind
\* of the returned lock time, and the returned lock time is greater than or
\* equal to that minimum.
C21_SatisfiesEveryInput ==
    (Resolved /\ IsOk(res.out) /\ Carriers(this) # {}) =>
        \A i \in Carriers(this) :
            LET lock    == res.out.ok[1]
                minimum == MinimumFor(this.inputs[i], lock.unit)
            IN  /\ minimum # None
                /\ minimum[1] <= lock.n

\* C21, witness: a time is returned that exceeds the min_time of an input
\* that sets both fields and equals that of a time-only input, beside an
\* input without lock-time fields.
C21_Witness ==
    /\ Resolved
    /\ Len(this.inputs) = 3
    /\ this.inputs[1].min_time = Some(1) /\ this.inputs[1].min_height = Some(2)
    /\ this.inputs[2].min_time = None /\ this.inputs[2].min_height = None
    /\ TimeOnly(this.inputs[3]) /\ this.inputs[3].min_time = Some(2)
    /\ res.out = Ok(TimeLock(2))

\* Some input sets both lock-time fields, another sets min_time only, and
\* none sets min_height only.
BothBesideTimeOnly(psbt) ==
    /\ \E i \in 1..Len(psbt.inputs) :
          psbt.inputs[i].min_time # None /\ psbt.inputs[i].min_height # None
    /\ \E j \in 1..Len(psbt.inputs) : TimeOnly(psbt.inputs[j])
    /\ \A k \in 1..Len(psbt.inputs) : ~HeightOnly(psbt.inputs[k])

\* C22, as stated: when some input sets both min_time and min_height and
\* another input sets only min_time, determine_lock_time returns a
\* height-based lock time.
C22_PrefersHeight ==
    (Resolved /\ BothBesideTimeOnly(this)) =>
        /\ IsOk(res.out)
        /\ res.out.ok[1].unit = "height"

\* C22, amended: when some input sets both min_time and min_height and
\* another input sets only min_time (and none only min_height),
\* determine_lock_time returns a time-based lock time, the greatest min_time
\* of the inputs.
C22_TimeBesideTimeOnly ==
    (Resolved /\ BothBesideTimeOnly(this)) =>
        res.out = Ok(TimeLock(Greatest(TimesSet(this))))

\* C22, witness: the input that sets both fields comes first and holds the
\* greatest min_time and a greater min_height; the time is returned.
C22_Witness ==
    /\ Resolved
    /\ Len(this.inputs) = 2
    /\ this.inputs[1].min_time = Some(2) /\ this.inputs[1].min_height = Some(2)
    /\ TimeOnly(this.inputs[2]) /\ this.inputs[2].min_time = Some(1)
    /\ res.out = Ok(TimeLock(2))

----------------------------------------------------------------------------
(* Claims about the modifiability bitfield after signing, checked under
   SpecSigner. *)

\* Signer::sign succeeded and signed at least one input.
SignedSome ==
    /\ res.op = "Signer::sign"
    /\ IsOk(res.out)
    /\ Held.signing_keys # EmptyMap

\* C23: in the document returned by a successful Signer::sign that signed at
\* least one input (with SIGHASH_ALL), the inputs-modifiable and the
\* outputs-modifiable bits are clear, whatever they were when the Signer was
\* created and without a separate call by the user.
C23_BitfieldPersistedBySign ==
    SignedSome =>
        /\ ~InputsBit(Held.psbt)
        /\ ~OutputsBit(Held.psbt)

\* Signer::sign leaves the bitfield of the document as it was in the Signer:
\* the bits are clear in the returned document only if they were clear
\* before, or were cleared by a call of ecdsa_clear_tx_modifiable.
C23_SignKeepsBitfield ==
    (res.op = "Signer::sign" /\ IsOk(res.out)) =>
        Held.psbt.tx_modifiable_flags = this.tx_modifiable_flags

----------------------------------------------------------------------------
(* Input::finalize. *)

\* FinalizeError::EmptyWitness.
EmptyWitness == [kind |-> "EmptyWitness"]

\* Input::finalize(&self, final_script_sig, final_script_witness).  The
\* debug_assert! on the funding UTXO panics in a build with debug assertions
\* and is absent otherwise.
InputFinalize(input, final_script_sig, final_script_witness, debug_assertions) ==
    LET ret == [NewInput(input.previous_txid, input.spent_output_index) EXCEPT
                   !.non_witness_utxo = input.non_witness_utxo,
                   !.witness_utxo     = input.witness_utxo]
    IN  IF debug_assertions /\ ~IsOk(funding_utxo(input))
        THEN Panic
        ELSE IF IsSome(input.witness_utxo)
        THEN IF final_script_witness = <<>>
             THEN Err(EmptyWitness)
             ELSE Ok([ret EXCEPT !.final_script_sig     = Some(final_script_sig),
                                 !.final_script_witness = Some(final_script_witness)])
        ELSE Ok([ret EXCEPT !.final_script_sig = Some(final_script_sig)])

----------------------------------------------------------------------------
(* Finalization of the inputs of a document a Finalizer accepted, one input
   at a time, followed by Extractor::new.  this is the document the
   Finalizer holds, that the document whose inputs are replaced by what
   Input::finalize returns, rev.out the positions replaced so far. *)

\* Funded inputs that differ in the kind of their funding evidence, their
\* sequence number, their lock times and their signatures.
FinalizeInputs ==
    {[NewInput(1, 0) EXCEPT !.non_witness_utxo = nwu, !.witness_utxo = wu,
                            !.sequence = sq, !.min_time = mt, !.min_height = mh,
                            !.partial_sigs = sigs] :
        nwu \in Option({[output |-> <<1>>]}), wu \in Option({1}),
        sq \in Option({1}), mt \in Option({2}), mh \in Option({2}),
        sigs \in {EmptyMap, [k \in {"k1"} |-> EcdsaSig("ALL")]}}

\* The inputs beside the one that varies: a witness-funded one and a legacy
\* one that sets a lower min_height.
FinalizeOthers ==
    {[NewInput(1, 0) EXCEPT !.witness_utxo = Some(1)],
     [NewInput(1, 0) EXCEPT !.non_witness_utxo = Some([output |-> <<1>>]),
                            !.min_height = Some(1)]}

InitFinalize ==
    /\ \E n \in 0..MaxInputs :
          \E k \in 1..n, varied \in FinalizeInputs, others \in [1..n -> FinalizeOthers] :
             this = NewPsbt(2, HeightLock(3), EmptyMap,
                            [i \in 1..n |->
                                [(IF i = k THEN varied ELSE others[i])
                                    EXCEPT !.previous_txid = i]],
                            OutputsOf(NewOutput(1, 1), 1))
    /\ IsOk(FinalizerNew(this))
    /\ that = this
    /\ res = NotCalled
    /\ rev = [op |-> "finalized", out |-> {}]

\* that.inputs[i] = that.inputs[i].finalize(script_sig, witness)?, for an
\* input not yet finalized and the final scripts the collaborator returns.
FinalizeInputCall ==
    /\ res.op # "Extractor::new"
    /\ \E i \in (1..Len(that.inputs)) \ rev.out,
          final_script_witness \in Witnesses, debug_assertions \in BOOLEAN :
          LET out == InputFinalize(that.inputs[i], 1, final_script_witness,
                                   debug_assertions)
          IN  /\ res' = [op |-> "Input::finalize", index |-> i, out |-> out]
              /\ that' = IF IsOk(out)
                         THEN [that EXCEPT !.inputs[i] = Unwrap(out.ok)]
                         ELSE that
              /\ rev' = IF IsOk(out) THEN [rev EXCEPT !.out = @ \cup {i}] ELSE rev
    /\ UNCHANGED this

\* Extractor::new(that).
ExtractFinalized ==
    /\ res.op # "Extractor::new"
    /\ res' = [op |-> "Extractor::new", out |-> ExtractorNew(that)]
    /\ UNCHANGED <<this, that, rev>>

NextFinalize == FinalizeInputCall \/ ExtractFinalized

SpecFinalize == InitFinalize /\ [][NextFinalize]_vars

----------------------------------------------------------------------------
(* Claims about Input::finalize, checked under SpecFinalize. *)

\* Input::finalize returned an input.
Finalized == res.op = "Input::finalize" /\ IsOk(res.out)

\* Every input of the document was produced by Input::finalize.
AllFinalized == rev.out = 1..Len(that.inputs)

\* The input holds no signing material: everything but its identity, its
\* funding evidence and its final fields is absent.
SigningMaterialCleared(input) ==
    [input EXCEPT !.final_script_sig = None, !.final_script_witness = None] =
        [NewInput(input.previous_txid, input.spent_output_index) EXCEPT
            !.non_witness_utxo = input.non_witness_utxo,
            !.witness_utxo     = input.witness_utxo]

\* C24: every input Input::finalize returns is finalized in the sense of
\* is_finalized: it carries final_script_sig and final_script_witness (an
\* empty witness for an input funded only by non_witness_utxo, a non-empty
\* one when witness_utxo is present) and no signing material; and a document
\* whose inputs were all produced by finalize is not rejected by
\* Extractor::new as PsbtNotFinalized.
C24_FinalizeFinalizes ==
    /\ Finalized =>
         LET input == res.out.ok[1]
         IN  /\ is_finalized(input)
             /\ input.final_script_sig # None
             /\ input.final_script_witness # None
             /\ input.witness_utxo = None => input.final_script_witness = Some(<<>>)
             /\ input.witness_utxo # None => input.final_script_witness[1] # <<>>
             /\ SigningMaterialCleared(input)
    /\ (res.op = "Extractor::new" /\ AllFinalized) =>
         res.out # Err(PsbtNotFinalized)

\* For an input that holds a witness_utxo the statement of C24 holds, and so
\* does the clearing of the signing material for every input.
C24_WitnessFundedFinalizes ==
    Finalized =>
        LET input == res.out.ok[1]
        IN  /\ SigningMaterialCleared(input)
            /\ input.final_script_sig # None
            /\ input.witness_utxo # None =>
                  /\ is_finalized(input)
                  /\ input.final_script_witness[1] # <<>>

\* C28: replacing an input by the result of Input::finalize leaves the
\* document's determine_lock_time result and every input's effective
\* sequence number (sequence, or final when absent) unchanged.
C28_FinalizeKeepsTransaction ==
    /\ determine_lock_time(that) = determine_lock_time(this)
    /\ \A i \in 1..Len(that.inputs) :
          unsigned_tx_in(that.inputs[i]).sequence = unsigned_tx_in(this.inputs[i]).sequence

\* Input::finalize keeps the identity and the funding evidence of the input.
C28_FinalizeKeepsIdentity ==
    \A i \in 1..Len(that.inputs) :
        /\ that.inputs[i].previous_txid = this.inputs[i].previous_txid
        /\ that.inputs[i].spent_output_index = this.inputs[i].spent_output_index
        /\ that.inputs[i].non_witness_utxo = this.inputs[i].non_witness_utxo
        /\ that.inputs[i].witness_utxo = this.inputs[i].witness_utxo

----------------------------------------------------------------------------
(* The identifiers of the roles and the operations of the Updater. *)

\* Psbt::id: the unsigned transaction with every sequence number zeroed,
\* which stands for its txid, or the error of unsigned_tx.
PsbtId(psbt) ==
    LET tx == unsigned_tx(psbt)
    IN  IF IsOk(tx)
        THEN Ok([role |-> "Txid",
                 tx   |-> [Unwrap(tx.ok) EXCEPT !.input =
                              [i \in DOMAIN @ |-> [@[i] EXCEPT !.sequence = 0]]]])
        ELSE tx

\* Updater::id, Signer::id, Finalizer::id and Extractor::id:
\* self.0.id().expect(..).
RoleId(role) ==
    LET id == PsbtId(role.psbt)
    IN  IF IsOk(id) THEN id ELSE Panic

\* Signer::unsigned_tx: self.0.unsigned_tx().expect(..).
SignerUnsignedTx(signer) ==
    LET tx == unsigned_tx(signer.psbt)
    IN  IF IsOk(tx) THEN Ok([role |-> "Transaction", tx |-> Unwrap(tx.ok)]) ELSE Panic

IndexOutOfBoundsError(index, length) ==
    [kind |-> "IndexOutOfBounds", index |-> index, length |-> length]

\* Updater::set_sequence(self, n, input_index); input_index counts from 0.
set_sequence(slf, n, input_index) ==
    IF input_index >= Len(slf.psbt.inputs)
    THEN Err(IndexOutOfBoundsError(input_index, Len(slf.psbt.inputs)))
    ELSE Ok(Role("Updater",
                 [slf.psbt EXCEPT !.inputs[input_index + 1].sequence = Some(n)]))

\* Updater::into_inner.
UpdaterIntoInner(slf) == Role("Psbt", slf.psbt)

\* The role a bare document is handed to.
EnterRole(name, psbt) ==
    CASE name = "Updater"   -> UpdaterFromPsbt(psbt)
      [] name = "Signer"    -> SignerNew(psbt)
      [] name = "Finalizer" -> FinalizerNew(psbt)
      [] name = "Extractor" -> ExtractorNew(psbt)

----------------------------------------------------------------------------
(* The roles after the Constructor, entered from bounded documents, with the
   operations of the Updater and the identifiers of every role. *)

LaterRoles == {"Updater", "Signer", "Finalizer", "Extractor"}

\* Funded and finalized inputs, which every role accepts, that differ in
\* their lock times.
UpdaterInputs ==
    {[NewInput(1, 0) EXCEPT !.witness_utxo = Some(1), !.final_script_sig = Some(1),
                            !.final_script_witness = Some(<<1>>),
                            !.min_time = mt, !.min_height = mh] :
        mt \in Option({1}), mh \in Option({1})}

InitUpdater ==
    /\ \E inputs \in SeqUpTo(UpdaterInputs, MaxInputs) :
          this = NewPsbt(2, LockTimeZERO, EmptyMap,
                         [i \in 1..Len(inputs) |-> [inputs[i] EXCEPT !.previous_txid = i]],
                         OutputsOf(NewOutput(1, 1), 1))
    /\ that = NewPsbt(2, LockTimeZERO, EmptyMap, <<>>, <<>>)
    /\ res = [op |-> "Psbt", out |-> Ok(Role("Psbt", this))]
    /\ rev = NotCalled

\* Updater::from_psbt, Signer::new, Finalizer::new or Extractor::new on the
\* document held.
EnterRoleCall ==
    /\ Holds({"Psbt"})
    /\ \E name \in LaterRoles :
          /\ this' = Held.psbt
          /\ res' = [op |-> "new", role |-> name, out |-> EnterRole(name, Held.psbt)]
          /\ UNCHANGED <<that, rev>>

\* updater.set_sequence(n, input_index).
SetSequenceCall ==
    /\ Holds({"Updater"})
    /\ \E n \in {1}, input_index \in 0..MaxInputs :
          Call("Updater::set_sequence", set_sequence(Held, n, input_index))

\* updater.0.inputs[i].min_time = v or updater.0.inputs[i].min_height = v:
\* an assignment through the public field of the Updater.
UpdaterEdit ==
    /\ Holds({"Updater"})
    /\ \E i \in 1..Len(Held.psbt.inputs), f \in {"min_time", "min_height"},
          v \in Option({1}) :
          Call("Updater.0", Ok(Role("Updater", [Held.psbt EXCEPT !.inputs[i][f] = v])))

\* updater.into_inner().
UpdaterIntoInnerCall ==
    /\ Holds({"Updater"})
    /\ Call("Updater::into_inner", Ok(UpdaterIntoInner(Held)))

\* role.id().
IdCall ==
    /\ Holds(LaterRoles)
    /\ this' = Held.psbt
    /\ res' = [op |-> "id", role |-> Held.role, out |-> RoleId(Held)]
    /\ UNCHANGED <<that, rev>>

\* signer.unsigned_tx().
UnsignedTxCall ==
    /\ Holds({"Signer"})
    /\ Call("Signer::unsigned_tx", SignerUnsignedTx(Held))

NextUpdater ==
    \/ EnterRoleCall
    \/ SetSequenceCall
    \/ UpdaterEdit
    \/ UpdaterIntoInnerCall
    \/ IdCall
    \/ UnsignedTxCall

SpecUpdater == InitUpdater /\ [][NextUpdater]_vars

----------------------------------------------------------------------------
(* Claims about the lock time of the wrapped document, checked under
   SpecUpdater. *)

\* C25: every Updater, Signer, Finalizer and Extractor value wraps a document
\* whose lock time can be determined, and id() and Signer::unsigned_tx never
\* panic, after any sequence of operations on the role value, set_sequence
\* and assignments through the Updater's public field included.
C25_RolesHoldLockTime ==
    /\ Holds(LaterRoles) => IsOk(determine_lock_time(Held.psbt))
    /\ res.op \in {"id", "Signer::unsigned_tx"} => res.out.tag # "panic"

\* The Signer, the Finalizer and the Extractor, whose document is private,
\* do wrap a document whose lock time can be determined; their id() and
\* Signer::unsigned_tx do not panic.
C25_PrivateRolesHoldLockTime ==
    /\ Holds(LaterRoles \ {"Updater"}) => IsOk(determine_lock_time(Held.psbt))
    /\ (res.op = "id" /\ res.role # "Updater") => res.out.tag # "panic"
    /\ res.op = "Signer::unsigned_tx" => res.out.tag # "panic"

----------------------------------------------------------------------------
(* Claims about the receiver of a failed combine, checked under
   SpecCombine. *)

\* C26: checks precede mutation in combine: when Psbt::combine returns an
\* error (version mismatch, inconsistent xpub key sources) the receiver is
\* exactly as it was before the call: input_count, output_count, the xpub
\* map and every input and output are unchanged.  (Input::combine and
\* Output::combine return their errors before their first assignment.)
C26_ChecksPrecedeMutation ==
    (res.op = "Psbt::combine" /\ IsErr(res.out)) => res.self = this

\* When Psbt::combine returns TxVersionMismatch the receiver is unchanged,
\* and whenever it returns an error the inputs, the outputs and the other
\* global fields are.
C26_VersionCheckPrecedesMutation ==
    (res.op = "Psbt::combine" /\ IsErr(res.out)) =>
        /\ res.out.err[1].kind = "TxVersionMismatch" => res.self = this
        /\ [res.self EXCEPT !.input_count = 0, !.output_count = 0, !.xpub = EmptyMap]
             = [this EXCEPT !.input_count = 0, !.output_count = 0, !.xpub = EmptyMap]

----------------------------------------------------------------------------
(* Claims about the legacy shape, checked under SpecConvert. *)

\* to_psbt_v0 returned a wire document.
ConvertedToV0 == res.op = "to_psbt_v0" /\ IsOk(res.out)

\* C27: the records Input::to_v0 and Output::to_v0 produce carry none of the
\* fields forbidden in the legacy shape: previous_txid, spent_output_index,
\* sequence, min_time and min_height are absent on every input, amount and
\* script_pubkey on every output, and the legacy validation of every input
\* and output passes.
C27_LegacyShape ==
    ConvertedToV0 =>
        LET psbt == res.out.ok[1]
        IN  /\ \A i \in 1..Len(psbt.inputs) :
                  /\ psbt.inputs[i].previous_txid = None
                  /\ psbt.inputs[i].spent_output_index = None
                  /\ psbt.inputs[i].sequence = None
                  /\ psbt.inputs[i].min_time = None
                  /\ psbt.inputs[i].min_height = None
                  /\ IsOk(InputAssertIsValidV0(psbt.inputs[i]))
            /\ \A j \in 1..Len(psbt.outputs) :
                  /\ psbt.outputs[j].amount = None
                  /\ psbt.outputs[j].script_pubkey = None
                  /\ IsOk(OutputAssertIsValidV0(psbt.outputs[j]))

\* Every forbidden field but min_time is absent, min_time is the one of the
\* strict input, and the legacy validation fails with HasMinTime and with
\* nothing else.
C27_LegacyShapeButMinTime ==
    ConvertedToV0 =>
        LET psbt == res.out.ok[1]
        IN  /\ \A i \in 1..Len(psbt.inputs) :
                  /\ psbt.inputs[i].previous_txid = None
                  /\ psbt.inputs[i].spent_output_index = None
                  /\ psbt.inputs[i].sequence = None
                  /\ psbt.inputs[i].min_height = None
                  /\ psbt.inputs[i].min_time = this.inputs[i].min_time
                  /\ InputAssertIsValidV0(psbt.inputs[i]) =
                        IF this.inputs[i].min_time = None
                        THEN Ok(<<>>) ELSE Err([kind |-> "HasMinTime"])
            /\ \A j \in 1..Len(psbt.outputs) :
                  /\ psbt.outputs[j].amount = None
                  /\ psbt.outputs[j].script_pubkey = None
                  /\ IsOk(OutputAssertIsValidV0(psbt.outputs[j]))

----------------------------------------------------------------------------
(* Claims about the lock time and the frame of combine, checked under
   SpecCombine. *)

\* C29: combine preserves lock-time determinability: if determine_lock_time
\* succeeds on a and on b and combine(a, b) succeeds, determine_lock_time
\* succeeds on the combined document, also when a and b set min_time and
\* min_height on different inputs.
C29_CombineKeepsLockTime ==
    ( /\ Combined
      /\ IsOk(res.out)
      /\ IsOk(determine_lock_time(this))
      /\ IsOk(determine_lock_time(that)) ) =>
        IsOk(determine_lock_time(Result))

\* When a and b set lock-time fields on the same inputs only (each input
\* that carries a lock-time field in one carries one in the other, or is
\* unpaired), the combined document does resolve.
C29_CombineKeepsLockTimeOfSameInputs ==
    ( /\ Combined
      /\ IsOk(res.out)
      /\ IsOk(determine_lock_time(this))
      /\ IsOk(determine_lock_time(that))
      /\ Len(this.inputs) = Len(that.inputs)
      /\ \A i \in 1..Len(this.inputs) :
            /\ this.inputs[i].min_time = that.inputs[i].min_time
            /\ this.inputs[i].min_height = that.inputs[i].min_height ) =>
        IsOk(determine_lock_time(Result))

\* No extended public key is held by both documents under different key
\* sources.
NoDisputedXpub(a, b) ==
    \A k \in (DOMAIN a.xpub) \cap (DOMAIN b.xpub) : a.xpub[k] = b.xpub[k]

C30_WitnessLongerOther ==
    /\ Combined
    /\ IsOk(res.out)
    /\ Len(this.inputs) = 1 /\ Len(that.inputs) = 2
    /\ this.inputs[1].sighash_type = Some(1) /\ that.inputs[1].sighash_type = Some(2)
    /\ Len(Result.inputs) = 1
    /\ Result.inputs[1].sighash_type = Some(1)

====
